---- MODULE Spec2Model ----
(***************************************************************************)
(* A model of the workflow interpreter of forex_trading_platform:          *)
(*   src/src/ultrarag/core/workflow_executor.py  (SimpleMustache,          *)
(*   WorkflowExecutor), with the collaborators it calls:                   *)
(*   src/valuecell/src/ultrarag/core/server_manager.py (ServerManager),    *)
(*   src/valuecell/src/ultrarag/core/agent_manager.py  (AgentManager),     *)
(*   src/valuecell/python/src/ultrarag/core/tool_registry.py.              *)
(*                                                                         *)
(* Python values are tagged records [t, v].  A Python string is a sequence *)
(* of symbols: "{" and "}" and the punctuation the template engine looks   *)
(* at (".", "#", "/", "^", "$", blank, newline) are one-character symbols, *)
(* every other symbol is an opaque chunk of text holding none of these.    *)
(* A Python dict is a function from key symbols to values.                 *)
(***************************************************************************)
EXTENDS Integers, Sequences, FiniteSets, TLC

VNone == [t |-> "none", v |-> 0]
VBool(b) == [t |-> "bool", v |-> b]
VInt(n) == [t |-> "int", v |-> n]
VStr(s) == [t |-> "str", v |-> s]
VDict(f) == [t |-> "dict", v |-> f]
VList(q) == [t |-> "list", v |-> q]

EmptyMap == [k \in {} |-> VNone]
EmptyDict == VDict(EmptyMap)

IsDict(x) == x.t = "dict"
IsStr(x) == x.t = "str"

\* d[k] = x on a Python dict held as a function
Put(d, k, x) == [j \in (DOMAIN d) \cup {k} |-> IF j = k THEN x ELSE d[j]]

\* dict.update(e): the entries of e win
Update(d, e) == [j \in (DOMAIN d) \cup (DOMAIN e) |-> IF j \in DOMAIN e THEN e[j] ELSE d[j]]

\* d.get(k, default) on a value known to be a dict
Get(d, k, default) == IF k \in DOMAIN d.v THEN d.v[k] ELSE default

\* Python truth value of an object (`if not x`, `a or b`)
PyTrue(x) ==
  CASE x.t = "none" -> FALSE
    [] x.t = "bool" -> x.v
    [] x.t = "int" -> x.v # 0
    [] x.t = "str" -> x.v # <<>>
    [] x.t = "dict" -> DOMAIN x.v # {}
    [] x.t = "list" -> x.v # <<>>
    [] OTHER -> TRUE

(***************************************************************************)
(* Strings                                                                 *)
(***************************************************************************)
WS == {" ", "\n", "\t"}

RECURSIVE LStrip(_)
LStrip(s) == IF s # <<>> /\ Head(s) \in WS THEN LStrip(Tail(s)) ELSE s

RECURSIVE RStrip(_)
RStrip(s) == IF s # <<>> /\ s[Len(s)] \in WS THEN RStrip(SubSeq(s, 1, Len(s) - 1)) ELSE s

\* str.strip()
Strip(s) == RStrip(LStrip(s))

\* s[i:] starts with p
StartsAt(s, i, p) == i + Len(p) - 1 <= Len(s) /\ SubSeq(s, i, i + Len(p) - 1) = p

\* key.split('.')
RECURSIVE Split(_)
Split(s) ==
  IF \E i \in 1..Len(s) : s[i] = "."
  THEN LET i == CHOOSE j \in 1..Len(s) : s[j] = "." /\ \A h \in 1..(j - 1) : s[h] # "."
       IN <<SubSeq(s, 1, i - 1)>> \o Split(SubSeq(s, i + 1, Len(s)))
  ELSE <<s>>

RECURSIVE JoinWith(_, _)
JoinWith(lines, sep) ==
  IF lines = <<>> THEN <<>>
  ELSE IF Len(lines) = 1 THEN lines[1]
  ELSE lines[1] \o sep \o JoinWith(Tail(lines), sep)

\* one fixed enumeration of a key set (Python iterates a dict in insertion order;
\* the model fixes one order per key set)
RECURSIVE KeySeq(_)
KeySeq(S) == IF S = {} THEN <<>> ELSE LET k == CHOOSE x \in S : TRUE IN <<k>> \o KeySeq(S \ {k})

\* str(n) for an int: its decimal digits, one symbol each
RECURSIVE Digits(_)
Digits(n) == IF n < 10 THEN <<ToString(n)>> ELSE Digits(n \div 10) \o <<ToString(n % 10)>>

\* repr(x) / str(x) of a value
RECURSIVE PyRepr(_)
PyRepr(x) ==
  CASE x.t = "none" -> <<"None">>
    [] x.t = "bool" -> IF x.v THEN <<"True">> ELSE <<"False">>
    [] x.t = "int" -> IF x.v < 0 THEN <<"-">> \o Digits(0 - x.v) ELSE Digits(x.v)
    [] x.t = "float" -> (IF x.v < 0 THEN <<"-">> \o Digits(0 - x.v) ELSE Digits(x.v)) \o <<".", "0">>
    [] x.t = "str" -> <<"'">> \o x.v \o <<"'">>
    [] x.t = "dict" ->
         LET ks == KeySeq(DOMAIN x.v)
             item(i) == <<"'", ks[i], "'", ":", " ">> \o PyRepr(x.v[ks[i]])
         IN <<"{">> \o JoinWith([i \in 1..Len(ks) |-> item(i)], <<",", " ">>) \o <<"}">>
    [] x.t = "list" ->
         <<"[">> \o JoinWith([i \in 1..Len(x.v) |-> PyRepr(x.v[i])], <<",", " ">>) \o <<"]">>
    [] OTHER -> <<"?">>

PyStr(x) == IF x.t = "str" THEN x.v ELSE PyRepr(x)

(***************************************************************************)
(* SimpleMustache                                                          *)
(***************************************************************************)
\* SimpleMustache._get_value: the dotted-path lookup; VNone when not found
RECURSIVE Walk(_, _)
Walk(cur, parts) ==
  IF parts = <<>> THEN cur
  ELSE IF IsDict(cur) /\ Len(parts[1]) = 1 /\ parts[1][1] \in DOMAIN cur.v
       THEN Walk(cur.v[parts[1][1]], Tail(parts))
       ELSE VNone

get_value(key, context) ==
  IF key = <<>> THEN VNone
  ELSE LET k == IF Head(key) = "$" THEN Tail(key) ELSE key
       IN Walk(VDict(context), Split(k))

\* SimpleMustache._is_truthy
LowerSym(c) ==
  CASE c = "False" -> "false" [] c = "FALSE" -> "false"
    [] c = "No" -> "no" [] c = "NO" -> "no"
    [] OTHER -> c

\* Python's own truth value, bool(value): every non-empty string is true
is_truthy_plain(value) ==
  CASE value.t = "none" -> FALSE
    [] value.t = "bool" -> value.v
    [] value.t \in {"int", "float"} -> value.v # 0
    [] value.t = "str" -> value.v # <<>>
    [] value.t \in {"list", "dict"} -> IF value.t = "dict" THEN DOMAIN value.v # {} ELSE value.v # <<>>
    [] OTHER -> TRUE

is_truthy(value) ==
  CASE value.t = "none" -> FALSE
    [] value.t = "bool" -> value.v
    [] value.t \in {"int", "float"} -> value.v # 0
    [] value.t = "str" -> [i \in 1..Len(value.v) |-> LowerSym(value.v[i])]
                              \notin {<<"false">>, <<"no">>, <<"0">>, <<>>}
    [] value.t \in {"list", "dict"} -> IF value.t = "dict" THEN DOMAIN value.v # {} ELSE value.v # <<>>
    [] OTHER -> TRUE

\* the end of the match of {{(.*?)}} that starts at i: the index of the closing
\* braces, 0 when there is no match at i ("." stops at a newline unless DOTALL)
VarClose(s, i, dotall) ==
  IF ~StartsAt(s, i, <<"{", "{">>) THEN 0
  ELSE LET C == {j \in (i + 2)..Len(s) : StartsAt(s, j, <<"}", "}">>)}
       IN IF C = {} THEN 0
          ELSE LET j == CHOOSE c \in C : \A d \in C : c <= d
               IN IF dotall \/ \A h \in (i + 2)..(j - 1) : s[h] # "\n" THEN j ELSE 0

\* replace_variable of _render_variables
replace_variable(s, i, j, context) ==
  LET var_key == Strip(SubSeq(s, i + 2, j - 1))
      whole == SubSeq(s, i, j + 1)
  IN IF var_key # <<>> /\ Head(var_key) \in {"#", "^", "/"} THEN whole
     ELSE LET value == get_value(var_key, context)
          IN IF value.t # "none" THEN PyStr(value) ELSE whole

RECURSIVE SubVars(_, _, _)
SubVars(s, i, context) ==
  IF i > Len(s) THEN <<>>
  ELSE LET j == VarClose(s, i, FALSE)
       IN IF j = 0 THEN <<s[i]>> \o SubVars(s, i + 1, context)
          ELSE replace_variable(s, i, j, context) \o SubVars(s, j + 2, context)

\* SimpleMustache._render_variables
render_variables(template, context) == SubVars(template, 1, context)

\* the match of {{#(.*?)}}(.*?){{/\1}} that starts at i, as <<k, m>>: the lengths of
\* the two groups, the first group as short as possible and then the second
\* (the regex engine's backtracking order); <<>> when there is no match at i
CondMatches(s, i) ==
  {km \in (0..Len(s)) \X (0..Len(s)) :
     /\ StartsAt(s, i, <<"{", "{", "#">>)
     /\ StartsAt(s, i + 3 + km[1], <<"}", "}">>)
     /\ StartsAt(s, i + 5 + km[1] + km[2],
                 <<"{", "{", "/">> \o SubSeq(s, i + 3, i + 2 + km[1]) \o <<"}", "}">>)}

CondMatch(s, i) ==
  LET M == CondMatches(s, i)
  IN IF M = {} THEN <<>>
     ELSE CHOOSE a \in M : \A b \in M : a[1] < b[1] \/ (a[1] = b[1] /\ a[2] <= b[2])

\* replace_condition of _render_condition_blocks
replace_condition(s, i, km, context) ==
  LET condition_key == Strip(SubSeq(s, i + 3, i + 2 + km[1]))
      block_content == SubSeq(s, i + 5 + km[1], i + 4 + km[1] + km[2])
  IN IF is_truthy(get_value(condition_key, context)) THEN block_content ELSE <<>>

RECURSIVE SubConds(_, _, _)
SubConds(s, i, context) ==
  IF i > Len(s) THEN <<>>
  ELSE LET km == CondMatch(s, i)
       IN IF km = <<>> THEN <<s[i]>> \o SubConds(s, i + 1, context)
          ELSE replace_condition(s, i, km, context)
                 \o SubConds(s, i + 5 + km[1] + km[2] + 3 + km[1] + 2, context)

\* SimpleMustache._render_condition_blocks
render_condition_blocks(template, context) == SubConds(template, 1, context)

\* SimpleMustache.render: the variables first, then the condition blocks
render(template, context) ==
  IF template = <<>> THEN template
  ELSE render_condition_blocks(render_variables(template, context), context)

(***************************************************************************)
(* WorkflowExecutor: pure helpers                                          *)
(***************************************************************************)
\* a StepResult as the handlers write it
Success(value) == VDict([success |-> VBool(TRUE), result |-> value])
Failure(msg) == VDict([success |-> VBool(FALSE), error |-> VStr(msg)])

\* the dict key a one-symbol name denotes (step names, variable names and tool
\* names of the model are one-symbol strings)
KeyOf(name) == name.v[1]

\* a context in which stored_data entries win over results entries
build_full_context_stored_last(sd, res, context) ==
  LET overlay == [k \in DOMAIN res |->
                    IF IsDict(res[k]) /\ "result" \in DOMAIN res[k].v THEN res[k].v["result"] ELSE res[k]]
      c1 == Update(overlay, sd)
      c2 == IF DOMAIN context # {} THEN Update(c1, context) ELSE c1
  IN Update(c2, [k \in {"stored_data", "results"} |->
                   IF k = "stored_data" THEN VDict(sd) ELSE VDict(res)])

\* WorkflowExecutor._build_full_context
build_full_context(sd, res, context) ==
  LET overlay == [k \in DOMAIN res |->
                    IF IsDict(res[k]) /\ "result" \in DOMAIN res[k].v THEN res[k].v["result"] ELSE res[k]]
      c1 == Update(sd, overlay)
      c2 == IF DOMAIN context # {} THEN Update(c1, context) ELSE c1
  IN Update(c2, [k \in {"stored_data", "results"} |->
                   IF k = "stored_data" THEN VDict(sd) ELSE VDict(res)])

\* key.replace('_', ' ').title() on the key symbols of the model
TitleOf(k) ==
  CASE k = "a" -> "A" [] k = "b" -> "B" [] k = "c" -> "C" [] k = "x" -> "X" [] k = "n" -> "N"
    [] k = "data" -> "Data" [] k = "error" -> "Error" [] k = "analysis" -> "Analysis"
    [] k = "stored_data" -> "Stored Data" [] k = "results" -> "Results"
    [] k = "t1" -> "T1" [] k = "out" -> "Out" [] k = "p" -> "P" [] k = "in" -> "In"
    [] k = "sx" -> "Sx" [] k = "sc" -> "Sc" [] k = "u" -> "U" [] k = "g1" -> "G1"
    [] OTHER -> k

\* len(title): the characters of a title
TitleLen(k) ==
  CASE k \in {"a", "b", "c", "x", "p", "u", "n"} -> 1
    [] k \in {"t1", "in", "sx", "sc", "g1"} -> 2
    [] k = "out" -> 3 [] k = "data" -> 4 [] k = "error" -> 5
    [] k = "results" -> 7 [] k = "analysis" -> 8 [] k = "stored_data" -> 11
    [] OTHER -> 1

\* f"{int(value):,}"
Pad3(n) == IF n < 10 THEN <<"0", "0">> \o Digits(n) ELSE IF n < 100 THEN <<"0">> \o Digits(n) ELSE Digits(n)

RECURSIVE Commas(_)
Commas(n) == IF n < 1000 THEN Digits(n) ELSE Commas(n \div 1000) \o <<",">> \o Pad3(n % 1000)

FormatInt(n) == IF n < 0 THEN <<"-">> \o Commas(0 - n) ELSE Commas(n)

Indent(level) == [i \in 1..level |-> "  "]

SkipKeys == {"success", "timestamp", "analysis_type", "data_type", "result"}

RECURSIVE FlattenLines(_)
FlattenLines(ls) == IF ls = <<>> THEN <<>> ELSE ls[1] \o FlattenLines(Tail(ls))

\* WorkflowExecutor._format_analysis_result: the display lines of a dict
RECURSIVE format_analysis_result(_, _)
format_analysis_result(data, level) ==
  IF level = 0 /\ "analysis" \in DOMAIN data /\ IsStr(data["analysis"])
  THEN <<Strip(data["analysis"].v)>>
  ELSE LET ks == KeySeq(DOMAIN data \ SkipKeys)
           label(k) == Indent(level) \o <<"* ", TitleOf(k)>>
           item(entry, lv) ==
             IF IsDict(entry)
             THEN <<Indent(lv - 2) \o <<"  -">> >> \o format_analysis_result(entry.v, lv)
             ELSE <<Indent(lv - 2) \o <<"  - ">> \o PyStr(entry)>>
           lines(k) ==
             LET value == data[k]
             IN CASE value.t = "dict" ->
                       <<label(k) \o <<"**:">> >> \o format_analysis_result(value.v, level + 1)
                  [] value.t = "list" ->
                       <<label(k) \o <<"**: (">> \o Digits(Len(value.v)) \o <<")">> >>
                         \o FlattenLines([i \in 1..Len(value.v) |-> item(value.v[i], level + 2)])
                  [] value.t \in {"int", "float"} -> <<label(k) \o <<": ">> \o FormatInt(value.v)>>
                  [] value.t = "bool" -> <<label(k) \o <<": ">> \o FormatInt(IF value.v THEN 1 ELSE 0)>>
                  [] OTHER -> <<label(k) \o <<": ">> \o PyStr(value)>>
       IN FlattenLines([i \in 1..Len(ks) |-> lines(ks[i])])

\* replace_and_format of _format_tool_results_in_message (the title of an analysis
\* block, seven characters in the source, is written here in ASCII)
replace_and_format(s, i, j, context) ==
  LET var_key == Strip(SubSeq(s, i + 2, j - 1))
      value == get_value(var_key, context)
      parts == Split(var_key)
      last == parts[Len(parts)]
      name == IF Len(last) = 1 THEN last[1] ELSE "?"
      title == IF "analysis" \in DOMAIN value.v /\ IsStr(value.v["analysis"])
               THEN <<"AI Deep Analysis">> ELSE <<TitleOf(name)>>
      separator == IF "analysis" \in DOMAIN value.v /\ IsStr(value.v["analysis"])
                   THEN [h \in 1..7 |-> "-"] ELSE [h \in 1..TitleLen(name) |-> "-"]
  IN IF IsDict(value) /\ DOMAIN value.v # {}
     THEN <<"\n", "\n", "## ">> \o title \o <<"\n">> \o separator \o <<"\n">>
            \o JoinWith(format_analysis_result(value.v, 0), <<"\n">>)
     ELSE render(SubSeq(s, i, j + 1), context)

RECURSIVE SubFormat(_, _, _)
SubFormat(s, i, context) ==
  IF i > Len(s) THEN <<>>
  ELSE LET j == VarClose(s, i, TRUE)
       IN IF j = 0 THEN <<s[i]>> \o SubFormat(s, i + 1, context)
          ELSE replace_and_format(s, i, j, context) \o SubFormat(s, j + 2, context)

\* WorkflowExecutor._format_tool_results_in_message
format_tool_results_in_message(message, context) == SubFormat(message, 1, context)

DigitVal(c) ==
  CASE c = "0" -> 0 [] c = "1" -> 1 [] c = "2" -> 2 [] c = "3" -> 3 [] c = "4" -> 4
    [] c = "5" -> 5 [] c = "6" -> 6 [] c = "7" -> 7 [] c = "8" -> 8 [] c = "9" -> 9
    [] OTHER -> 0 - 1

RECURSIVE DigitsVal(_)
DigitsVal(s) == IF s = <<>> THEN 0 ELSE 10 * DigitsVal(SubSeq(s, 1, Len(s) - 1)) + DigitVal(s[Len(s)])

\* int(value): an optional sign and decimal digits; anything else is a ValueError
IsIntText(s) ==
  LET body == IF s # <<>> /\ Head(s) \in {"-", "+"} THEN Tail(s) ELSE s
  IN body # <<>> /\ \A i \in 1..Len(body) : DigitVal(body[i]) >= 0

ParseInt(s) ==
  IF Head(s) = "-" THEN 0 - DigitsVal(Tail(s))
  ELSE IF Head(s) = "+" THEN DigitsVal(Tail(s)) ELSE DigitsVal(s)

\* WorkflowExecutor._validate_input: [ok, value, error]; value is a string (a line read
\* or the configured default); a float holds a whole number in the model
Invalid(msg) == [ok |-> FALSE, value |-> VNone, error |-> msg]
Valid(x) == [ok |-> TRUE, value |-> x, error |-> <<>>]

InRange(n, config) ==
  LET min_val == Get(config, "min", VNone)
      max_val == Get(config, "max", VNone)
  IN IF min_val.t # "none" /\ n < min_val.v THEN <<"below min">>
     ELSE IF max_val.t # "none" /\ n > max_val.v THEN <<"above max">> ELSE <<>>

validate_input(value, config) ==
  LET input_type == Get(config, "type", VStr(<<"string">>))
      required == Get(config, "required", VBool(FALSE))
  IN IF PyTrue(required) /\ ~PyTrue(value) THEN Invalid(<<"required">>)
     ELSE IF ~PyTrue(value) /\ ~PyTrue(required) THEN Valid(VNone)
     ELSE CASE input_type = VStr(<<"string">>) ->
                 LET min_length == Get(config, "min_length", VNone)
                     max_length == Get(config, "max_length", VNone)
                 IN IF PyTrue(min_length) /\ Len(value.v) < min_length.v THEN Invalid(<<"too short">>)
                    ELSE IF PyTrue(max_length) /\ Len(value.v) > max_length.v THEN Invalid(<<"too long">>)
                    ELSE Valid(value)
            [] input_type = VStr(<<"integer">>) ->
                 IF ~IsIntText(value.v) THEN Invalid(<<"bad format: ", "ValueError">>)
                 ELSE IF InRange(ParseInt(value.v), config) # <<>>
                      THEN Invalid(InRange(ParseInt(value.v), config))
                      ELSE Valid(VInt(ParseInt(value.v)))
            [] input_type = VStr(<<"float">>) ->
                 IF ~IsIntText(value.v) THEN Invalid(<<"bad format: ", "ValueError">>)
                 ELSE IF InRange(ParseInt(value.v), config) # <<>>
                      THEN Invalid(InRange(ParseInt(value.v), config))
                      ELSE Valid([t |-> "float", v |-> ParseInt(value.v)])
            [] input_type = VStr(<<"choice">>) ->
                 LET choices == Get(config, "choices", VList(<<>>))
                 IN IF \E i \in 1..Len(choices.v) : choices.v[i] = value
                    THEN Valid(value) ELSE Invalid(<<"not a choice">>)
            [] OTHER -> Valid(value)

\* WorkflowExecutor._resolve_inputs_with_mustache
HasBraces(s) == \E i \in 1..Len(s) : StartsAt(s, i, <<"{", "{">>) \/ StartsAt(s, i, <<"}", "}">>)

resolve_input(value, context) ==
  IF IsStr(value) /\ HasBraces(value.v)
  THEN LET t == Strip(value.v)
       IN IF StartsAt(t, 1, <<"{", "{">>) /\ Len(t) >= 4 /\ StartsAt(t, Len(t) - 1, <<"}", "}">>)
               /\ \A h \in 3..(Len(t) - 2) : t[h] # "\n"
          THEN LET resolved_value == get_value(Strip(SubSeq(t, 3, Len(t) - 2)), context)
               IN IF resolved_value.t # "none" THEN resolved_value ELSE value
          ELSE VStr(render(value.v, context))
  ELSE value

resolve_inputs_with_mustache(inputs, context) ==
  [k \in DOMAIN inputs |-> resolve_input(inputs[k], context)]

(***************************************************************************)
(* The executor's state                                                    *)
(***************************************************************************)
VARIABLES
  workflow_config,   \* the workflow definition handed to execute_workflow
  agents,            \* agent_manager.list_agents(): the registered agent names
  stored_data,       \* WorkflowExecutor.stored_data
  results,           \* WorkflowExecutor.results
  tool_mapping,      \* WorkflowExecutor.tool_mapping: tool name -> server type
  sm_initialized,    \* WorkflowExecutor._server_manager_initialized
  tool_definitions,  \* ToolRegistry.tool_definitions: the registered server types
  servers,           \* ServerManager.servers: running server type -> port
  port_pool,         \* ServerManager.port_pool
  context,           \* the ad hoc context execute_workflow threads through its steps
  full_context,      \* the map _build_full_context returned last
  stack,             \* the call stack below execute_workflow, innermost frame last
  status,            \* idle | running | returned | raised
  trace              \* history: the events of the run, in order

vars == <<workflow_config, agents, stored_data, results, tool_mapping, sm_initialized,
          tool_definitions, servers, port_pool, context, full_context, stack, status, trace>>

\* A frame: k = "setup" (the loop over tools_needed in execute_workflow), "steps" (an
\* activation of _execute_steps; i is the index of the next step), "loop" (an activation of
\* _execute_loop_step; i counts the iterations started), "tool" (waiting in
\* call_tool_method) or "input" (waiting in input()).  pos is the place of the step in
\* the workflow document, its the iteration numbers of the enclosing loops.
Frame(k, steps, i, step, times, pos, its, arg) ==
  [k |-> k, steps |-> steps, i |-> i, step |-> step, times |-> times, pos |-> pos,
   its |-> its, arg |-> arg]

Top == stack[Len(stack)]
Below == SubSeq(stack, 1, Len(stack) - 1)

Event(e, pos, its, n) == [e |-> e, pos |-> pos, its |-> its, n |-> n]

\* the step _execute_steps hands to _execute_step next
AtStep == status = "running" /\ stack # <<>> /\ Top.k = "steps" /\ Top.i <= Len(Top.steps)
Cur == Top.steps[Top.i]
CurPos == Top.pos \o <<Top.i>>

\* _execute_step: step_name and step_type (a step without a type is a tool step;
\* the source's default name for a step without one is written here in ASCII)
step_name(step) == KeyOf(Get(step, "step", VStr(<<"unnamed">>)))
step_type(step) == Get(step, "type", VStr(<<"tool">>))

\* the for loop of _execute_steps moves to the next step
Advance == Below \o <<[Top EXCEPT !.i = Top.i + 1]>>

\* a handler that runs to its end without calling out: its start and end events
Atomic(n) == trace \o <<Event("start", CurPos, Top.its, n), Event("end", CurPos, Top.its, n)>>

\* an except clause that records nothing
Caught_silent(res, step, exc) == res

\* the except clause of _execute_step
Caught(res, step, exc) == Put(res, step_name(step), Failure(<<"step failed: ", exc>>))

FailureV(err) == VDict([success |-> VBool(FALSE), error |-> err])

\* a print handler that stores the message as written
execute_print_step_verbatim(step, res, fc) ==
  LET name == KeyOf(Get(step, "step", VStr(<<"print_step">>)))
      config == Get(step, "config", EmptyDict)
  IN IF ~IsDict(config)
     THEN Put(res, name, Failure(<<"print step failed: ", "AttributeError">>))
     ELSE Put(res, name, Success(Get(config, "message", VStr(<<>>))))

\* WorkflowExecutor._execute_print_step: the results map after the step; fc is what
\* self._build_full_context(context) returns
execute_print_step(step, res, fc) ==
  LET name == KeyOf(Get(step, "step", VStr(<<"print_step">>)))
      config == Get(step, "config", EmptyDict)
  IN IF ~IsDict(config)
     THEN Put(res, name, Failure(<<"print step failed: ", "AttributeError">>))
     ELSE LET message == Get(config, "message", VStr(<<>>))
          IN IF ~IsStr(message)
             THEN Put(res, name, Failure(<<"print step failed: ", "TypeError">>))
             ELSE Put(res, name,
                      Success(VStr(render(format_tool_results_in_message(message.v, fc), fc))))

\* a set_variable handler without the check of line 571: the value lands under the
\* key None and the step is a success
execute_set_variable_step_unchecked(step, sd, res, fc) ==
  LET name == KeyOf(Get(step, "step", VStr(<<"set_variable_step">>)))
      config == Get(step, "config", EmptyDict)
  IN IF ~IsDict(config) THEN [sd |-> sd, res |-> Caught(res, step, "AttributeError")]
     ELSE LET var_name == Get(config, "variable", VNone)
              value == Get(config, "value", VNone)
              resolved_value == IF IsStr(value) THEN VStr(render(value.v, fc)) ELSE value
          IN [sd |-> Put(sd, IF PyTrue(var_name) THEN KeyOf(var_name) ELSE "None", resolved_value),
              res |-> Put(res, name, Success(resolved_value))]

\* WorkflowExecutor._execute_set_variable_step: stored_data and results after the step
execute_set_variable_step(step, sd, res, fc) ==
  LET name == KeyOf(Get(step, "step", VStr(<<"set_variable_step">>)))
      config == Get(step, "config", EmptyDict)
  IN IF ~IsDict(config) THEN [sd |-> sd, res |-> Caught(res, step, "AttributeError")]
     ELSE LET var_name == Get(config, "variable", VNone)
              value == Get(config, "value", VNone)
              resolved_value == IF IsStr(value) THEN VStr(render(value.v, fc)) ELSE value
          IN IF ~PyTrue(var_name)
             THEN [sd |-> sd, res |-> Put(res, name, Failure(<<"set_variable step lacks variable">>))]
             ELSE [sd |-> Put(sd, KeyOf(var_name), resolved_value),
                   res |-> Put(res, name, Success(resolved_value))]

\* WorkflowExecutor._execute_agent_step: the results map after the step.  The module
\* never imports asyncio, so line 512 raises NameError before agent.execute is called
\* and the except clause records the failure.
agent_found(step, registered) ==
  LET agent_name == Get(step, "agent", VNone)
  IN IsStr(agent_name) /\ Len(agent_name.v) = 1 /\ KeyOf(agent_name) \in registered

\* a handler that does not look the agent up: an unregistered agent's step is
\* recorded as a success without a result
execute_agent_step_unchecked(step, res, registered) ==
  LET name == step_name(step)
      inputs == Get(step, "inputs", EmptyDict)
  IN IF ~agent_found(step, registered) THEN Put(res, name, Success(VNone))
     ELSE IF ~IsDict(inputs)
          THEN Put(res, name, Failure(<<"agent execution failed: ", "AttributeError">>))
          ELSE Put(res, name, Failure(<<"agent execution failed: ", "name 'asyncio' is not defined">>))

execute_agent_step(step, res, registered) ==
  LET name == step_name(step)
      agent_name == Get(step, "agent", VNone)
      inputs == Get(step, "inputs", EmptyDict)
  IN IF ~agent_found(step, registered)
     THEN Put(res, name, Failure(<<"agent not registered: ">> \o PyStr(agent_name)))
     ELSE IF ~IsDict(inputs)
          THEN Put(res, name, Failure(<<"agent execution failed: ", "AttributeError">>))
          ELSE Put(res, name, Failure(<<"agent execution failed: ", "name 'asyncio' is not defined">>))

\* a route that looks at the tool bindings only
tool_route_tools_first(step, registered, initialized, mapping) ==
  LET tool_name == Get(step, "tool", VNone)
  IN IF ~initialized THEN "uninitialized"
     ELSE IF ~(IsStr(tool_name) /\ Len(tool_name.v) = 1 /\ KeyOf(tool_name) \in DOMAIN mapping)
          THEN "unbound"
          ELSE "call"

\* the route a tool step takes through _execute_tool_step (lines 421-440)
tool_route(step, registered, initialized, mapping) ==
  LET tool_name == Get(step, "tool", VNone)
  IN IF IsStr(tool_name) /\ Len(tool_name.v) = 1 /\ KeyOf(tool_name) \in registered THEN "agent"
     ELSE IF ~initialized THEN "uninitialized"
     ELSE IF ~(IsStr(tool_name) /\ Len(tool_name.v) = 1 /\ KeyOf(tool_name) \in DOMAIN mapping)
          THEN "unbound"
          ELSE "call"

\* _display_summary_data raises on a realtime payload whose data is not a map or
\* whose rate and change are not numbers
display_summary_raises(result) ==
  /\ Get(result, "data_type", VNone) = VStr(<<"realtime">>)
  /\ "data" \in DOMAIN result.v
  /\ \/ ~IsDict(result.v["data"])
     \/ LET rate == Get(result.v["data"], "exchange_rate", VNone)
            change == Get(result.v["data"], "percent_change", VNone)
        IN rate.t # "none" /\ change.t # "none" /\ ~({rate.t, change.t} \subseteq {"int", "float"})

\* lines 452-474 of _execute_tool_step: what the step stores once call_tool_method
\* has returned `result`
\* a handler that keeps the payload in a map of its own in place of stored_data
tool_stored_alone(step, sd, result) ==
  LET a == Get(step, "store_result_as", VNone)
      store_var == IF PyTrue(a) THEN a ELSE Get(step, "output", VNone)
      sd1 == IF PyTrue(store_var) THEN Put(EmptyMap, KeyOf(store_var), result) ELSE EmptyMap
  IN Put(sd1, step_name(step), result)

tool_stored(step, sd, result) ==
  LET a == Get(step, "store_result_as", VNone)
      store_var == IF PyTrue(a) THEN a ELSE Get(step, "output", VNone)
      sd1 == IF PyTrue(store_var) THEN Put(sd, KeyOf(store_var), result) ELSE sd
  IN Put(sd1, step_name(step), result)

\* a tool handler that files the payload itself as the step's record
tool_recorded_raw(step, res, result) == Put(res, step_name(step), result)

tool_recorded(step, res, result) ==
  LET name == step_name(step)
  IN IF ~IsDict(result) THEN Put(res, name, Failure(<<"AttributeError">>))
     ELSE IF PyTrue(Get(result, "success", VBool(FALSE)))
          THEN IF display_summary_raises(result)
               THEN Put(res, name, Failure(<<"ValueError">>))
               ELSE Put(res, name, Success(result))
          ELSE Put(res, name, FailureV(Get(result, "error", VStr(<<"unknown error">>))))

(***************************************************************************)
(* The workflows and environments the runs are drawn from                  *)
(***************************************************************************)
MaxTimes == 3
MaxInner == 2
PortLo == 8000
PortHi == 8100

Tok(key) == <<"{", "{">> \o key \o <<"}", "}">>
Name(n) == VStr(<<n>>)

S_p == VDict([step |-> Name("p"), type |-> Name("print"),
              config |-> VDict([message |-> VStr(<<"x=">> \o Tok(<<"x">>))])])
S_x == VDict([step |-> Name("x"), type |-> Name("print"),
              config |-> VDict([message |-> VStr(<<"hi">>)])])
S_pn == VDict([step |-> Name("pn"), type |-> Name("print"), config |-> VNone])
S_sx == VDict([step |-> Name("sx"), type |-> Name("set_variable"),
               config |-> VDict([variable |-> Name("x"), value |-> VStr(<<"1", "0">>)])])
S_sc == VDict([step |-> Name("sc"), type |-> Name("set_variable"),
               config |-> VDict([variable |-> Name("c"), value |-> VStr(Tok(<<"c">>) \o <<"I">>)])])
S_sk == VDict([step |-> Name("sk"), type |-> Name("set_variable"),
               config |-> VDict([variable |-> Name("x"), value |-> VStr(Tok(<<"c">>))])])
\* x := "{{q}}" while q is unknown, and q := "5"
S_sq == VDict([step |-> Name("sq"), type |-> Name("set_variable"),
               config |-> VDict([variable |-> Name("x"), value |-> VStr(Tok(<<"q">>))])])
S_q == VDict([step |-> Name("s5"), type |-> Name("set_variable"),
              config |-> VDict([variable |-> Name("q"), value |-> VStr(<<"5">>)])])
S_sm == VDict([step |-> Name("sm"), type |-> Name("set_variable"),
               config |-> VDict([value |-> VStr(<<"1", "0">>)])])
S_in == VDict([step |-> Name("in"), type |-> Name("input"), output |-> Name("x"),
               config |-> VDict([type |-> Name("integer"), min |-> VInt(1), max |-> VInt(10)])])
S_im == VDict([step |-> Name("im"), type |-> Name("input"),
               config |-> VDict([type |-> Name("integer")])])
S_t1 == VDict([step |-> Name("t1"), type |-> Name("tool"), tool |-> Name("t1"),
               output |-> Name("out"), inputs |-> VDict([q |-> VStr(Tok(<<"x">>))])])
S_ta == VDict([step |-> Name("ta"), type |-> Name("tool"), tool |-> Name("ag"),
               inputs |-> EmptyDict])
S_g1 == VDict([step |-> Name("g1"), type |-> Name("agent"), agent |-> Name("ag"),
               inputs |-> EmptyDict])
S_g2 == VDict([step |-> Name("g2"), type |-> Name("agent"), agent |-> Name("zz")])
S_u == VDict([step |-> Name("u"), type |-> Name("frobnicate")])
S_b == VDict([step |-> Name("b"), type |-> Name("branch")])
S_r == VDict([step |-> Name("r"), type |-> Name("router")])

Loop(n, body) == VDict([step |-> Name("lp"), type |-> Name("loop"),
                        config |-> VDict([times |-> VInt(n), steps |-> VList(body)])])
Inner(n, body) == VDict([step |-> Name("li"), type |-> Name("loop"),
                         config |-> VDict([times |-> VInt(n), steps |-> VList(body)])])
\* a loop whose times is the string "3": range(times) raises TypeError
S_lbad == VDict([step |-> Name("lb"), type |-> Name("loop"),
                 config |-> VDict([times |-> VStr(<<"3">>), steps |-> VList(<<S_sc>>)])])

\* input steps, one for each kind of validation in _validate_input; all store under x
Ask(n, config) == VDict([step |-> Name(n), type |-> Name("input"), output |-> Name("x"),
                         config |-> VDict(config)])
S_if == Ask("if", [type |-> Name("float"), min |-> VInt(1), max |-> VInt(10)])
S_imin == Ask("imin", [type |-> Name("string"), min_length |-> VInt(2)])
S_imax == Ask("imax", [max_length |-> VInt(1)])
S_ic == Ask("ic", [type |-> Name("choice"), choices |-> VList(<<VStr(<<"5">>), VStr(<<"a">>)>>)])
S_ir == Ask("ir", [type |-> Name("string"), required |-> VBool(TRUE)])
S_iri == Ask("iri", [type |-> Name("integer"), required |-> VBool(TRUE), min |-> VInt(1),
                     max |-> VInt(10)])
S_id == Ask("id", [type |-> Name("integer"), default |-> VStr(<<"4", "2">>), max |-> VInt(10)])
\* a default that passes validation, and the default 0 of a YAML `default: 0`
S_idv == Ask("idv", [type |-> Name("integer"), default |-> VStr(<<"7">>), min |-> VInt(1),
                     max |-> VInt(10)])
S_id0 == Ask("id0", [type |-> Name("integer"), default |-> VInt(0), min |-> VInt(0),
                     max |-> VInt(10)])
Asks == {S_in, S_if, S_imin, S_imax, S_ic, S_ir, S_iri, S_id, S_idv, S_id0}
Asked == {<<a, S_p>> : a \in Asks} \cup {<<S_sx, a, S_p>> : a \in Asks}

\* a tool step whose inputs are of every kind _resolve_inputs_with_mustache tells apart
S_tm == VDict([step |-> Name("tm"), type |-> Name("tool"), tool |-> Name("t1"),
               inputs |-> VDict([one |-> VStr(Tok(<<"a">>)),
                                 pad |-> VStr(<<" ">> \o Tok(<<"a", ".", "b">>) \o <<" ">>),
                                 miss |-> VStr(Tok(<<"z">>)),
                                 two |-> VStr(Tok(<<"a", ".", "b">>) \o Tok(<<"x">>)),
                                 both |-> VStr(Tok(<<"a", ".", "b">>) \o <<" ", "and", " ">> \o Tok(<<"x">>)),
                                 mix |-> VStr(<<"n=">> \o Tok(<<"a", ".", "b">>)),
                                 half |-> VStr(<<"a", "}", "}">>),
                                 lit |-> VStr(<<"plain">>),
                                 num |-> VInt(3)])])

\* templates over a context that holds a value of every kind _is_truthy tells apart,
\* and a string (w) that itself holds a condition block
Block(key, inner) == <<"{", "{", "#">> \o key \o <<"}", "}">> \o inner
                       \o <<"{", "{", "/">> \o key \o <<"}", "}">>
VarsT ==
  VDict([a |-> VDict([b |-> VInt(5), n |-> VNone]),
         w |-> VStr(Block(<<"a">>, <<"Y">>)),
         bt |-> VBool(TRUE), bf |-> VBool(FALSE),
         n0 |-> VInt(0), n7 |-> VInt(7), f0 |-> [t |-> "float", v |-> 0],
         s0 |-> VStr(<<"0">>), sno |-> VStr(<<"No">>), sf |-> VStr(<<"FALSE">>),
         se |-> VStr(<<>>), sa |-> VStr(<<"anything-else">>),
         m0 |-> EmptyDict, l0 |-> VList(<<>>), l1 |-> VList(<<VInt(1)>>),
         nn |-> VNone])
CondKeys == {<<"a">>, <<"w">>, <<"bt">>, <<"bf">>, <<"n0">>, <<"n7">>, <<"f0">>, <<"s0">>, <<"sno">>,
             <<"sf">>, <<"se">>, <<"sa">>, <<"m0">>, <<"l0">>, <<"l1">>, <<"nn">>, <<"zz">>,
             <<"a", ".", "b">>, <<"a", ".", "n">>, <<"a", ".", "z">>}
Paths == CondKeys \cup {<<"a", ".", "b", ".", "c">>, <<"$", "a", ".", "b">>, <<" ", "a", ".", "b", " ">>,
                        <<"zz", ".", "b">>, <<>>}
Templates ==
  {Block(k, <<"Y">>) : k \in CondKeys}
    \cup {Tok(q) : q \in Paths}
    \cup {<<"n=">> \o Tok(<<"a", ".", "b">>) \o <<";">> \o Tok(<<"zz">>),
          Block(<<"se">>, Tok(<<"a", ".", "b">>)) \o <<"|">> \o Block(<<"a">>, Tok(<<"a", ".", "b">>)),
          Block(<<" ", "bt", " ">>, <<"Y">>),
          <<"Y">>, <<>>}
Assign(tpl) == VDict([step |-> Name("st"), type |-> Name("set_variable"),
                      config |-> VDict([variable |-> Name("y"), value |-> VStr(tpl)])])
Show(tpl) == VDict([step |-> Name("pt"), type |-> Name("print"),
                    config |-> VDict([message |-> VStr(tpl)])])
Rendered == {<<Assign(tpl)>> : tpl \in Templates} \cup {<<Show(tpl)>> : tpl \in Templates}

Leaf == {S_p, S_x, S_pn, S_sx, S_sc, S_sk, S_sm, S_in, S_im, S_t1, S_ta, S_g1, S_g2, S_u, S_b, S_r,
         S_lbad}
BodyLeaf == {S_sc, S_in, S_u}

Bodies ==
  {<<b>> : b \in BodyLeaf}
    \cup {<<b[1], b[2]>> : b \in BodyLeaf \X BodyLeaf}
    \cup {<<Inner(m, <<b[1]>>), b[2]>> : m \in 0..MaxInner, b \in BodyLeaf \X BodyLeaf}

Flat == {<<a[1], a[2]>> : a \in Leaf \X Leaf}
Triples == {<<S_x, S_sx, S_p>>, <<S_sx, S_x, S_p>>, <<S_sq, S_q, S_p>>, <<S_u, S_b, S_p>>}
Looped == {<<Loop(n, body), S_p>> : n \in 0..MaxTimes, body \in Bodies}

Vars0 == VDict([c |-> VStr(<<>>), a |-> VDict([b |-> VInt(5)])])
Binding(n, server_type) == VDict([name |-> Name(n), server_type |-> Name(server_type)])
Tools0 == VList(<<Binding("t1", "srv"), Binding("ag", "srv")>>)

Config(variables, tools, steps) ==
  VDict([name |-> Name("wf"), variables |-> variables, tools |-> tools, workflow |-> VList(steps)])

\* an executor built over a server manager whose server "srv" is already running
\* (RunCommand._register_tools starts the servers before it builds the executor),
\* with "reg" registered and not yet started
Env(cfg, ag, init) ==
  [cfg |-> cfg, agents |-> ag, init |-> init]

Scenarios ==
  {Env(Config(Vars0, Tools0, w), {"ag"}, TRUE) : w \in Flat \cup Looped \cup Triples}
    \cup {Env(Config(Vars0, VList(<<Binding("t1", st)>>), <<S_t1, S_p>>), {"ag"}, TRUE) :
            st \in {"reg", "nope"}}
    \cup {Env(Config(Vars0, VList(ts), <<S_t1, S_p>>), {"ag"}, FALSE) :
            ts \in {<<>>, <<Binding("t1", "srv")>>}}
    \cup {Env(Config(EmptyDict, VList(<<>>), w), {}, TRUE) : w \in {<<S_ta, S_g1>>, <<S_p, S_sx>>}}
    \cup {Env(Config(Vars0, VList(<<>>), w), {}, TRUE) : w \in Asked}
    \cup {Env(Config(VarsT, VList(<<>>), w), {}, TRUE) : w \in Rendered}
    \cup {Env(Config(Vars0, Tools0, w), {"ag"}, TRUE) : w \in {<<S_tm, S_p>>, <<S_sx, S_tm>>}}

\* what input() returns, stripped: "5", "42", the empty line, "a"
Lines == {<<"5">>, <<"4", "2">>, <<>>, <<"a">>}

\* what a tool method returns
\* a quote as a data tool returns it: numbers, or the strings of a JSON reply
Quote(rate, change) ==
  VDict([success |-> VBool(TRUE), data_type |-> VStr(<<"realtime">>),
         data |-> VDict([exchange_rate |-> rate, percent_change |-> change])])

Payloads == {VDict([success |-> VBool(TRUE), data |-> VStr(<<"d1">>)]),
             Quote(VInt(1), VInt(2)),
             Quote(VStr(<<"1", ".", "0", "8">>), VStr(<<"0", ".", "1">>)),
             VDict([success |-> VBool(FALSE), error |-> VStr(<<"boom">>)]),
             VDict([data |-> VStr(<<"d2">>)]),
             VNone}

Init ==
  \E sc \in Scenarios :
    /\ workflow_config = sc.cfg
    /\ agents = sc.agents
    /\ sm_initialized = sc.init
    /\ tool_definitions = IF sc.init THEN {"srv", "reg"} ELSE {}
    /\ servers = IF sc.init THEN [k \in {"srv"} |-> PortLo] ELSE [k \in {} |-> PortLo]
    /\ port_pool = IF sc.init THEN (PortLo + 1)..(PortHi - 1) ELSE PortLo..(PortHi - 1)
    /\ stored_data = EmptyMap
    /\ results = EmptyMap
    /\ context = EmptyMap
    /\ full_context = EmptyMap
    /\ tool_mapping = [k \in {} |-> ""]
    /\ stack = <<>>
    /\ status = "idle"
    /\ trace = <<>>

(***************************************************************************)
(* execute_workflow and its set-up                                         *)
(***************************************************************************)
StepsFrame(steps, pos, its) == Frame("steps", steps, 1, VNone, 0, pos, its, VNone)
WorkflowSteps == Get(workflow_config, "workflow", VList(<<>>)).v

\* WorkflowExecutor.execute_workflow, lines 161-185: seed stored_data, find the tools
\* that are not agents, initialise the server manager if any is needed.
\* _ensure_server_manager builds a ServerManager over a new, empty ToolRegistry (were
\* its import to fail, server_manager would stay None and the first start_server call
\* would raise as well).  self.results is not reset.
execute_workflow ==
  /\ status = "idle"
  /\ status' = "running"
  /\ stored_data' = Get(workflow_config, "variables", EmptyDict).v
  /\ LET tools == Get(workflow_config, "tools", VList(<<>>)).v
         tools_needed == SelectSeq(tools, LAMBDA tc : KeyOf(tc.v["name"]) \notin agents)
     IN IF tools_needed # <<>>
        THEN /\ sm_initialized' = TRUE
             /\ stack' = <<Frame("setup", tools_needed, 1, VNone, 0, <<>>, <<>>, VNone)>>
        ELSE /\ sm_initialized' = sm_initialized
             /\ stack' = <<StepsFrame(WorkflowSteps, <<>>, <<>>)>>
  /\ trace' = trace \o <<Event("run", <<>>, <<>>, "")>>
  /\ UNCHANGED <<workflow_config, agents, results, tool_mapping, tool_definitions, servers, port_pool,
                 context, full_context>>

\* an interrupt that the input handler swallows: the run goes on with the next step
Raise_swallowed ==
  /\ stack' = IF Top.k = "input" THEN SubSeq(stack, 1, Len(stack) - 2)
                                       \o <<[stack[Len(stack) - 1] EXCEPT !.i = @ + 1]>>
              ELSE <<>>
  /\ status' = IF Top.k = "input" THEN status ELSE "raised"

\* execute_workflow raises: the exception leaves every frame
Raise == stack' = <<>> /\ status' = "raised"

\* _start_tool_server with ServerManager.start_server and
\* ToolRegistry.create_tool_instance: bind the tool, then start its server unless it runs
start_tool_server ==
  /\ status = "running" /\ stack # <<>> /\ Top.k = "setup"
  /\ LET tool_config == Top.steps[Top.i]
         tool_name == KeyOf(tool_config.v["name"])
         server_type == KeyOf(tool_config.v["server_type"])
         done == IF Top.i = Len(Top.steps) THEN <<StepsFrame(WorkflowSteps, <<>>, <<>>)>> ELSE Advance
     IN /\ tool_mapping' = Put(tool_mapping, tool_name, server_type)
        /\ IF server_type \in DOMAIN servers
           THEN /\ stack' = done
                /\ UNCHANGED <<status, servers, port_pool>>
           ELSE IF port_pool = {}
                THEN Raise /\ UNCHANGED <<servers, port_pool>>
                ELSE \E port \in port_pool :
                       /\ port_pool' = port_pool \ {port}
                       /\ IF server_type \notin tool_definitions
                          THEN Raise /\ UNCHANGED servers
                          ELSE /\ servers' = Put(servers, server_type, port)
                               /\ stack' = done
                               /\ UNCHANGED status
  /\ trace' = trace \o <<Event("start_server", <<>>, <<>>, "")>>
  /\ UNCHANGED <<workflow_config, agents, stored_data, results, sm_initialized, tool_definitions,
                 context, full_context>>

(***************************************************************************)
(* _execute_step: one action per handler                                   *)
(***************************************************************************)
Env0 == <<workflow_config, agents, tool_mapping, sm_initialized, tool_definitions, servers, port_pool,
          context>>

Env1 == <<agents, tool_mapping, sm_initialized, tool_definitions, servers, port_pool, context>>

\* stored_data is the very map the definition holds under "variables": what a handler
\* stores shows in the definition
definition_shared ==
  workflow_config' = VDict([workflow_config.v EXCEPT !["variables"] = VDict(stored_data')])

\* line 165: stored_data is workflow_config.get("variables", {}).copy(), a map of its
\* own, and the handlers assign to its keys only (lines 390, 456, 458, 579): a store
\* leaves the definition as it was
definition_kept == workflow_config' = workflow_config

\* a context built once, from the variables the run started with
Built_at_start ==
  build_full_context(Get(workflow_config, "variables", EmptyDict).v, EmptyMap, context)

\* self._build_full_context(context) as the handlers call it
Built == build_full_context(stored_data, results, context)

\* a full context assembled in stored_data itself (full_context = self.stored_data in
\* place of a new map): what the build overlays shows in stored_data
context_built_in_place == stored_data' = Built

\* _build_full_context fills a new map (line 629), _resolve_inputs_with_mustache fills
\* another (line 610) and SimpleMustache only reads its context: resolving templates
\* leaves stored_data as it was
context_kept == stored_data' = stored_data

IsType(n) == AtStep /\ step_type(Cur) = Name(n)
KnownTypes == {Name(n) : n \in {"print", "tool", "agent", "input", "set_variable", "loop",
                                "branch", "router"}}

\* type print
print_step ==
  /\ IsType("print")
  /\ results' = execute_print_step(Cur, results, Built)
  /\ full_context' = IF IsDict(Get(Cur, "config", EmptyDict)) THEN Built ELSE full_context
  /\ trace' = Atomic(step_name(Cur))
  /\ stack' = Advance
  /\ UNCHANGED <<Env0, status>>
  /\ context_kept

\* type set_variable
set_variable_step ==
  /\ IsType("set_variable")
  /\ LET after == execute_set_variable_step(Cur, stored_data, results, Built)
         config == Get(Cur, "config", EmptyDict)
     IN /\ stored_data' = after.sd
        /\ results' = after.res
        /\ full_context' = IF IsDict(config) /\ PyTrue(Get(config, "variable", VNone))
                           THEN Built ELSE full_context
  /\ trace' = Atomic(step_name(Cur))
  /\ stack' = Advance
  /\ UNCHANGED <<Env1, status>>
  /\ definition_kept

\* an agent invocation left running when its step ends
agent_events_detached(pos, its, n, agent_name) ==
  <<Event("start", pos, its, n), Event("end", pos, its, n), Event("agent", pos, its, agent_name)>>

\* what a step that reaches _execute_agent_step adds to the history: the handler is
\* entered and left before _execute_step returns
agent_events(pos, its, n, agent_name) ==
  <<Event("start", pos, its, n), Event("agent", pos, its, agent_name), Event("end", pos, its, n)>>

\* type agent
agent_step ==
  /\ IsType("agent")
  /\ results' = execute_agent_step(Cur, results, agents)
  /\ full_context' = IF agent_found(Cur, agents) THEN Built ELSE full_context
  /\ trace' = trace \o agent_events(CurPos, Top.its, step_name(Cur), PyStr(Get(Cur, "agent", VNone))[1])
  /\ stack' = Advance
  /\ UNCHANGED <<Env0, stored_data, status>>

\* type tool, up to the call of server_manager.call_tool_method
tool_step ==
  /\ IsType("tool")
  /\ LET route == tool_route(Cur, agents, sm_initialized, tool_mapping)
         name == step_name(Cur)
         inputs == Get(Cur, "inputs", EmptyDict)
         started == trace \o <<Event("start", CurPos, Top.its, name)>>
         ended == <<Event("end", CurPos, Top.its, name)>>
     IN CASE route = "agent" ->
               /\ results' = execute_agent_step(VDict(Put(Cur.v, "agent", Cur.v["tool"])), results, agents)
               /\ full_context' = Built
               /\ trace' = trace \o agent_events(CurPos, Top.its, name, KeyOf(Cur.v["tool"]))
               /\ stack' = Advance
          [] route = "uninitialized" ->
               /\ full_context' = full_context
               /\ results' = Put(results, name, Failure(<<"tools not initialised: ">> \o PyStr(Get(Cur, "tool", VNone))))
               /\ trace' = started \o ended
               /\ stack' = Advance
          [] route = "unbound" ->
               /\ full_context' = full_context
               /\ results' = Put(results, name, Failure(<<"tool not found: ">> \o PyStr(Get(Cur, "tool", VNone))))
               /\ trace' = started \o ended
               /\ stack' = Advance
          [] OTHER ->
               /\ full_context' = Built
               /\ IF ~IsDict(inputs)
                  THEN /\ results' = Put(results, name, Failure(<<"AttributeError">>))
                       /\ trace' = started \o ended
                       /\ stack' = Advance
                  ELSE /\ results' = results
                       /\ trace' = started \o <<Event("call", CurPos, Top.its, tool_mapping[KeyOf(Cur.v["tool"])])>>
                       /\ stack' = stack \o <<Frame("tool", <<>>, 0, Cur, 0, CurPos, Top.its,
                                                    VDict([server_type |-> Name(tool_mapping[KeyOf(Cur.v["tool"])]),
                                                           method |-> Get(Cur, "method", Name("execute")),
                                                           inputs |-> VDict(resolve_inputs_with_mustache(inputs.v, Built))]))>>
  /\ UNCHANGED <<Env0, status>>
  /\ context_kept

InCall(k) == status = "running" /\ stack # <<>> /\ Top.k = k
Ended == trace \o <<Event("end", Top.pos, Top.its, step_name(Top.step))>>
\* the frame returns into _execute_steps, which moves to the next step
Resume == LET under == stack[Len(stack) - 1]
          IN SubSeq(stack, 1, Len(stack) - 2) \o <<[under EXCEPT !.i = under.i + 1]>>

\* ServerManager.call_tool_method returns `result` (lines 452-474)
tool_return ==
  /\ InCall("tool")
  /\ KeyOf(Top.arg.v["server_type"]) \in DOMAIN servers
  /\ \E result \in Payloads :
       /\ stored_data' = tool_stored(Top.step, stored_data, result)
       /\ results' = tool_recorded(Top.step, results, result)
  /\ trace' = Ended
  /\ stack' = Resume
  /\ UNCHANGED <<Env1, full_context, status>>
  /\ definition_kept

\* ServerManager.call_tool_method raises: the server is not running, or the tool's
\* method raised (lines 476-481).  What is raised is an Exception; an interrupt
\* delivered while a collaborator runs is outside the model.
tool_raise ==
  /\ InCall("tool")
  /\ results' = Put(results, step_name(Top.step),
                    Failure(IF KeyOf(Top.arg.v["server_type"]) \in DOMAIN servers
                            THEN <<"tool raised">> ELSE <<"server not running">>))
  /\ trace' = Ended
  /\ stack' = Resume
  /\ UNCHANGED <<Env0, full_context, stored_data, status>>

\* type input, up to the blocking read (lines 364-381)
input_step ==
  /\ IsType("input")
  /\ LET name == KeyOf(Get(Cur, "step", Name("input_step")))
         config == Get(Cur, "config", EmptyDict)
         var_name == Get(Cur, "output", VNone)
     IN IF ~IsDict(config)
        THEN /\ results' = Put(results, name, Failure(<<"input step failed: ", "AttributeError">>))
             /\ trace' = Atomic(step_name(Cur))
             /\ stack' = Advance
        ELSE IF ~PyTrue(var_name)
             THEN /\ results' = Put(results, name, Failure(<<"input step lacks output">>))
                  /\ trace' = Atomic(step_name(Cur))
                  /\ stack' = Advance
             ELSE /\ results' = results
                  /\ trace' = trace \o <<Event("start", CurPos, Top.its, step_name(Cur)),
                                        Event("prompt", CurPos, Top.its, step_name(Cur))>>
                  /\ stack' = stack \o <<Frame("input", <<>>, 0, Cur, 0, CurPos, Top.its, VNone)>>
  /\ UNCHANGED <<Env0, full_context, stored_data, status>>

\* a handler that stores what was typed before it validates it
input_stored_early(step, sd, res, line) ==
  LET name == KeyOf(Get(step, "step", Name("input_step")))
      config == Get(step, "config", EmptyDict)
      default_value == Get(config, "default", VStr(<<>>))
      user_input == IF line = <<>> /\ PyTrue(default_value) THEN default_value ELSE VStr(line)
      checked == validate_input(user_input, config)
      stored_value == IF checked.value.t # "none" THEN checked.value ELSE user_input
  IN [sd |-> Put(sd, KeyOf(step.v["output"]), stored_value),
      res |-> IF checked.ok THEN Put(res, name, Success(stored_value))
              ELSE Put(res, name, Failure(<<"input validation failed: ">> \o checked.error))]

\* what lines 383-400 store once input() has returned `line`
input_stored(step, sd, res, line) ==
  LET name == KeyOf(Get(step, "step", Name("input_step")))
      config == Get(step, "config", EmptyDict)
      default_value == Get(config, "default", VStr(<<>>))
      user_input == IF line = <<>> /\ PyTrue(default_value) THEN default_value ELSE VStr(line)
      checked == validate_input(user_input, config)
      stored_value == IF checked.value.t # "none" THEN checked.value ELSE user_input
  IN IF checked.ok
     THEN [sd |-> Put(sd, KeyOf(step.v["output"]), stored_value),
           res |-> Put(res, name, Success(stored_value))]
     ELSE [sd |-> sd, res |-> Put(res, name, Failure(<<"input validation failed: ">> \o checked.error))]

\* input() returns a line
input_line ==
  /\ InCall("input")
  /\ \E line \in Lines :
       LET after == input_stored(Top.step, stored_data, results, line)
       IN stored_data' = after.sd /\ results' = after.res
  /\ trace' = Ended
  /\ stack' = Resume
  /\ UNCHANGED <<Env1, full_context, status>>
  /\ definition_kept

\* input() raises EOFError: an Exception, recorded by the handler (lines 406-410)
input_eof ==
  /\ InCall("input")
  /\ results' = Put(results, KeyOf(Get(Top.step, "step", Name("input_step"))),
                    Failure(<<"input step failed: ", "EOFError">>))
  /\ trace' = Ended
  /\ stack' = Resume
  /\ UNCHANGED <<Env0, full_context, stored_data, status>>

\* input() raises KeyboardInterrupt: recorded and raised again (lines 402-405); no
\* except clause above catches it, so it leaves execute_workflow
input_cancel ==
  /\ InCall("input")
  /\ results' = Put(results, KeyOf(Get(Top.step, "step", Name("input_step"))), Failure(<<"cancelled by user">>))
  /\ trace' = trace \o <<Event("cancel", Top.pos, Top.its, step_name(Top.step))>>
  /\ Raise
  /\ UNCHANGED <<Env0, full_context, stored_data>>

\* type loop: _execute_loop_step up to its for loop (lines 643-649)
loop_step ==
  /\ IsType("loop")
  /\ LET config == Get(Cur, "config", EmptyDict)
         times == IF IsDict(config) THEN Get(config, "times", VInt(1)) ELSE VNone
         loop_steps == Get(config, "steps", VList(<<>>))
     IN IF ~IsDict(config) \/ times.t # "int"
        THEN /\ results' = Caught(results, Cur, IF IsDict(config) THEN "TypeError" ELSE "AttributeError")
             /\ trace' = Atomic(step_name(Cur))
             /\ stack' = Advance
        ELSE /\ results' = results
             /\ trace' = trace \o <<Event("start", CurPos, Top.its, step_name(Cur))>>
             /\ stack' = stack \o <<Frame("loop", loop_steps.v, 0, Cur, times.v, CurPos, Top.its, VNone)>>
  /\ UNCHANGED <<Env0, full_context, stored_data, status>>

\* a range with one iteration too many
in_range_inclusive(i, times) == i <= times

\* i in range(times), for the i iterations already started
in_range(i, times) == i < times

\* for i in range(times): the next iteration calls _execute_steps (line 650)
loop_iterate ==
  /\ InCall("loop")
  /\ in_range(Top.i, Top.times)
  /\ stack' = Below \o <<[Top EXCEPT !.i = Top.i + 1], StepsFrame(Top.steps, Top.pos, Top.its \o <<Top.i>>)>>
  /\ trace' = trace \o <<Event("iter", Top.pos, Top.its \o <<Top.i>>, step_name(Top.step))>>
  /\ UNCHANGED <<Env0, full_context, stored_data, results, status>>

\* the for loop is over: _execute_loop_step returns (lines 653-654)
loop_return ==
  /\ InCall("loop")
  /\ ~in_range(Top.i, Top.times)
  /\ trace' = Ended
  /\ stack' = Resume
  /\ UNCHANGED <<Env0, full_context, stored_data, results, status>>

\* types branch and router: the stubs
stub_step ==
  /\ AtStep /\ step_type(Cur) \in {Name("branch"), Name("router")}
  /\ trace' = Atomic(step_name(Cur))
  /\ stack' = Advance
  /\ UNCHANGED <<Env0, full_context, stored_data, results, status>>

\* an unknown type that is passed over without a record
unknown_type_ignored(step, res) == res

\* any other type (lines 241-245)
unknown_type_result(step, res) ==
  Put(res, step_name(step), Failure(<<"unknown step type: ">> \o PyStr(step_type(step))))

unknown_step ==
  /\ AtStep /\ step_type(Cur) \notin KnownTypes
  /\ results' = unknown_type_result(Cur, results)
  /\ trace' = Atomic(step_name(Cur))
  /\ stack' = Advance
  /\ UNCHANGED <<Env0, full_context, stored_data, status>>

\* _execute_steps has run its last step and returns (line 200); the value it and the
\* handlers return (the last step result that is not None) is read nowhere and is
\* left out of the model.  The outermost
\* activation returns into execute_workflow, which returns self.results (line 187)
steps_return ==
  /\ status = "running" /\ stack # <<>> /\ Top.k = "steps" /\ Top.i > Len(Top.steps)
  /\ stack' = Below
  /\ status' = IF Len(stack) = 1 THEN "returned" ELSE status
  /\ trace' = IF Len(stack) = 1 THEN trace \o <<Event("return", <<>>, <<>>, "")>> ELSE trace
  /\ UNCHANGED <<Env0, full_context, stored_data, results>>

Next ==
  \/ execute_workflow
  \/ start_tool_server
  \/ print_step
  \/ set_variable_step
  \/ agent_step
  \/ tool_step
  \/ tool_return
  \/ tool_raise
  \/ input_step
  \/ input_line
  \/ input_eof
  \/ input_cancel
  \/ loop_step
  \/ loop_iterate
  \/ loop_return
  \/ stub_step
  \/ unknown_step
  \/ steps_return

Spec == Init /\ [][Next]_vars

(***************************************************************************)
(* _build_full_context on its own: the three maps it reads are drawn from  *)
(* small sets in which the same key occurs in several of them              *)
(***************************************************************************)
Raw(n) == VStr(<<n>>)

CtxStored ==
  {EmptyMap,
   Put(EmptyMap, "k", Raw("s")),
   Put(Put(EmptyMap, "k", Raw("s")), "stored_data", Raw("s")),
   Put(Put(EmptyMap, "k", Raw("s")), "results", Raw("s")),
   Put(EmptyMap, "j", Raw("s"))}

CtxResults ==
  {EmptyMap,
   Put(EmptyMap, "k", Success(Raw("r"))),
   Put(EmptyMap, "k", Failure(<<"e">>)),
   Put(EmptyMap, "k", Raw("raw")),
   Put(EmptyMap, "results", Success(Raw("r"))),
   Put(Put(EmptyMap, "k", Success(VNone)), "stored_data", Failure(<<"e">>))}

CtxAdhoc ==
  {EmptyMap,
   Put(EmptyMap, "k", Raw("c")),
   Put(EmptyMap, "stored_data", Raw("c")),
   Put(Put(EmptyMap, "j", Raw("c")), "results", Raw("c"))}

InitCtx ==
  /\ workflow_config = Config(EmptyDict, VList(<<>>), <<>>)
  /\ agents = {}
  /\ sm_initialized = FALSE
  /\ tool_definitions = {}
  /\ servers = [k \in {} |-> PortLo]
  /\ port_pool = PortLo..(PortHi - 1)
  /\ stored_data \in CtxStored
  /\ results \in CtxResults
  /\ context \in CtxAdhoc
  /\ full_context = EmptyMap
  /\ tool_mapping = [k \in {} |-> ""]
  /\ stack = <<>>
  /\ status = "context"
  /\ trace = <<>>

\* a call of self._build_full_context(context)
build_context ==
  /\ status = "context"
  /\ full_context' = Built
  /\ status' = "built"
  /\ UNCHANGED <<Env0, results, stack, trace>>
  /\ context_kept

NextCtx == build_context
SpecCtx == InitCtx /\ [][NextCtx]_vars

(***************************************************************************)
(* Several calls of execute_workflow on one executor: the caller builds    *)
(* the executor once (__init__, lines 96-114: stored_data = {}, results =  *)
(* {}) and calls execute_workflow again when a run has returned            *)
(***************************************************************************)
MaxRuns == 3

RunLeaf == {S_p, S_x, S_sx, S_sc}
RunWorkflows == {<<a>> : a \in RunLeaf} \cup {<<a[1], a[2]>> : a \in RunLeaf \X RunLeaf}
RunConfigs == {Config(Vars0, VList(<<>>), w) : w \in {<<S_p>>, <<S_x>>, <<S_sx, S_p>>, <<S_sc>>}}

RunsStarted == Cardinality({i \in DOMAIN trace : trace[i].e = "run"})

InitRuns ==
  \E w \in RunWorkflows :
    /\ workflow_config = Config(Vars0, VList(<<>>), w)
    /\ agents = {}
    /\ sm_initialized = FALSE
    /\ tool_definitions = {}
    /\ servers = [k \in {} |-> PortLo]
    /\ port_pool = PortLo..(PortHi - 1)
    /\ stored_data = EmptyMap
    /\ results = EmptyMap
    /\ context = EmptyMap
    /\ full_context = EmptyMap
    /\ tool_mapping = [k \in {} |-> ""]
    /\ stack = <<>>
    /\ status = "idle"
    /\ trace = <<>>

\* the caller, holding the map the last call returned (which is self.results itself,
\* line 187), calls execute_workflow once more with another definition: nothing of
\* the executor is rebuilt between the calls
call_again ==
  /\ status = "returned"
  /\ RunsStarted < MaxRuns
  /\ \E cfg \in RunConfigs : workflow_config' = cfg
  /\ status' = "idle"
  /\ UNCHANGED <<agents, tool_mapping, sm_initialized, tool_definitions, servers, port_pool, context,
                 full_context, stored_data, results, stack, trace>>

NextRuns ==
  \/ execute_workflow
  \/ print_step
  \/ set_variable_step
  \/ steps_return
  \/ call_again

SpecRuns == InitRuns /\ [][NextRuns]_vars

(***************************************************************************)
(* Properties.  The history in `trace` tells which step ran when: a step   *)
(* execution is identified by its place in the workflow document (pos) and *)
(* the iteration numbers of the loops around it (its).                     *)
(***************************************************************************)
Idx == 1..Len(trace)
Front(q) == SubSeq(q, 1, Len(q) - 1)
Last(q) == q[Len(q)]

\* the step of the workflow document at place pos
RECURSIVE StepAt(_, _)
StepAt(steps, pos) ==
  IF Len(pos) = 1 THEN steps[pos[1]]
  ELSE StepAt(Get(Get(steps[pos[1]], "config", EmptyDict), "steps", VList(<<>>)).v, Tail(pos))

StepOf(i) == StepAt(WorkflowSteps, trace[i].pos)
Ran(pos, its) == \E i \in Idx : trace[i].e = "end" /\ trace[i].pos = pos /\ trace[i].its = its
IsFailure(r) == IsDict(r) /\ DOMAIN r.v = {"success", "error"} /\ r.v["success"] = VBool(FALSE)
Cancelled == \E i \in Idx : trace[i].e = "cancel"
EveryTopLevelStepRan == \A k \in 1..Len(WorkflowSteps) : Ran(<<k>>, <<>>)

\* a step with a required field missing or whose handler raises on its configuration
Malformed(step) ==
  LET ty == step_type(step)
      config == Get(step, "config", EmptyDict)
  IN \/ ty \in {Name("print"), Name("set_variable"), Name("input"), Name("loop")} /\ ~IsDict(config)
     \/ ty = Name("set_variable") /\ IsDict(config) /\ ~PyTrue(Get(config, "variable", VNone))
     \/ ty = Name("input") /\ ~PyTrue(Get(step, "output", VNone))
     \/ ty = Name("loop") /\ IsDict(config) /\ Get(config, "times", VInt(1)).t # "int"

MalformedRecorded ==
  \A i \in Idx :
    trace[i].e = "end" /\ Malformed(StepOf(i))
      => trace[i].n \in DOMAIN results /\ IsFailure(results[trace[i].n])

\* C1: a run in which no input read is cancelled never raises, every malformed step
\* ends with a failure record, and the steps after it still run.
C1_NoUncaughtExceptions ==
  /\ status = "raised" => Cancelled
  /\ MalformedRecorded
  /\ status = "returned" => EveryTopLevelStepRan

\* a step whose handler returns without writing a result: the stubs, and a loop that
\* runs its iterations
Silent(step) ==
  \/ step_type(step) \in {Name("branch"), Name("router")}
  \/ step_type(step) = Name("loop") /\ ~Malformed(step)

Recorded(i) ==
  /\ trace[i].n \in DOMAIN results
  /\ IsDict(results[trace[i].n])
  /\ "success" \in DOMAIN results[trace[i].n].v

\* C2 as stated: every step that has finished, whatever its type, has a StepResult
\* under its name.
C2_EveryStepRecorded == \A i \in Idx : trace[i].e = "end" => Recorded(i)

\* C2 amended: a finished step has a StepResult under its name exactly when it is
\* not a branch step, a router step or a loop whose handler returned; a loop whose
\* handler raised has one.
C2_RecordedUnlessSilent ==
  \A i \in Idx : trace[i].e = "end" => (Recorded(i) <=> ~Silent(StepOf(i)))

C2_Witness ==
  /\ \E i \in Idx : trace[i].e = "end" /\ step_type(StepOf(i)) = Name("loop")
                    /\ Malformed(StepOf(i)) /\ Recorded(i)
  /\ \E i \in Idx : trace[i].e = "end" /\ step_type(StepOf(i)) = Name("print") /\ Recorded(i)

\* a tool step that names a registered agent
ToolIsAgent(step) ==
  /\ step_type(step) = Name("tool")
  /\ "tool" \in DOMAIN step.v
  /\ KeyOf(step.v["tool"]) \in agents

\* C3: a tool step whose tool is a registered agent enters the agent handler with
\* that name and never reaches call_tool_method, bound in tool_mapping or not.
C3_AgentPrecedence ==
  /\ \A i \in Idx :
       trace[i].e = "end" /\ ToolIsAgent(StepOf(i))
         => /\ i > 2
            /\ trace[i - 1] = Event("agent", trace[i].pos, trace[i].its, KeyOf(StepOf(i).v["tool"]))
            /\ trace[i - 2] = Event("start", trace[i].pos, trace[i].its, trace[i].n)
  /\ \A i \in Idx : trace[i].e = "call" => ~ToolIsAgent(StepOf(i))
  /\ AtStep /\ ToolIsAgent(Cur)
       => \A initialized \in BOOLEAN :
            \A mapping \in {tool_mapping, Put(tool_mapping, KeyOf(Cur.v["tool"]), "srv")} :
              tool_route(Cur, agents, initialized, mapping) = "agent"

C3_Witness ==
  \E i \in Idx : /\ trace[i].e = "end" /\ ToolIsAgent(StepOf(i))
                 /\ trace[i].n \in DOMAIN results
                 /\ \E j \in Idx : trace[j].e = "call"

\* the steps of the list that come after place pos have run
LaterStepsRan(pos, its) ==
  LET list == IF Len(pos) = 1 THEN WorkflowSteps
              ELSE Get(Get(StepAt(WorkflowSteps, Front(pos)), "config", EmptyDict), "steps", VList(<<>>)).v
  IN \A k \in (Last(pos) + 1)..Len(list) :
       \E j \in Idx : /\ trace[j].e = "end" /\ trace[j].pos = Front(pos) \o <<k>> /\ trace[j].its = its
                      /\ (Recorded(j) \/ Silent(StepOf(j)))

Entry(pos, its, n, done) == [pos |-> pos, its |-> its, n |-> n, done |-> done]

RECURSIVE Nest(_, _, _)
Nest(t, i, open) ==
  IF i > Len(t) THEN TRUE
  ELSE LET ev == t[i]
           top == open[Len(open)]
           rest == SubSeq(open, 1, Len(open) - 1)
           mine == Len(open) > 1 /\ top.pos = ev.pos /\ top.its = ev.its
       IN CASE ev.e = "run" -> open = <<>> /\ Nest(t, i + 1, <<Entry(<<>>, <<>>, 1, 0)>>)
            [] ev.e = "start_server" -> Len(open) = 1 /\ top.done = 0 /\ Nest(t, i + 1, open)
            [] ev.e = "start" ->
                 /\ open # <<>>
                 /\ top.n >= 1
                 /\ ev.pos = top.pos \o <<top.done + 1>>
                 /\ ev.its = IF Len(open) = 1 THEN <<>> ELSE top.its \o <<top.n - 1>>
                 /\ Nest(t, i + 1, open \o <<Entry(ev.pos, ev.its, 0, 0)>>)
            [] ev.e = "iter" ->
                 /\ Len(open) > 1
                 /\ top.pos = ev.pos
                 /\ ev.its = top.its \o <<top.n>>
                 /\ Nest(t, i + 1, rest \o <<Entry(top.pos, top.its, top.n + 1, 0)>>)
            [] ev.e = "end" ->
                 /\ mine
                 /\ LET parent == rest[Len(rest)]
                    IN Nest(t, i + 1, SubSeq(rest, 1, Len(rest) - 1)
                                        \o <<Entry(parent.pos, parent.its, parent.n, parent.done + 1)>>)
            [] ev.e \in {"agent", "call", "prompt", "cancel"} ->
                 mine /\ top.n = 0 /\ Nest(t, i + 1, open)
            [] ev.e = "return" -> Len(open) = 1 /\ Nest(t, i + 1, open)
            [] OTHER -> FALSE

\* C6: steps run one at a time in list order: a step starts only when the step
\* before it in its list has ended, an agent invocation lies between the start and
\* the end of its step, and two steps or two iterations are never open side by side.
C6_OneAtATime == Nest(trace, 1, <<>>)

C6_Witness ==
  /\ status = "returned"
  /\ \E i \in Idx : trace[i].e = "agent" /\ trace[i].pos = <<1>>
  /\ Ran(<<2>>, <<>>)

WellFormedLoop(step) == step_type(step) = Name("loop") /\ ~Malformed(step)
Times(step) == Get(Get(step, "config", EmptyDict), "times", VInt(1)).v
Body(step) == Get(Get(step, "config", EmptyDict), "steps", VList(<<>>)).v
Starts(pos, its) == {i \in Idx : trace[i].e = "start" /\ trace[i].pos = pos /\ trace[i].its = its}
Iters(pos, its) == {i \in Idx : trace[i].e = "iter" /\ trace[i].pos = pos /\ trace[i].its = its}
IterOf(pos, its) == CHOOSE i \in Iters(pos, its) : TRUE
StartOf(pos, its) == CHOOSE i \in Starts(pos, its) : TRUE
EndOf(pos, its) == CHOOSE i \in Idx : trace[i].e = "end" /\ trace[i].pos = pos /\ trace[i].its = its
Tally(n) == VStr([h \in 1..n |-> "I"])

\* C7: a loop that has ended ran its nested list exactly `times` times, every nested
\* step once per iteration in list order, each iteration after the one before it;
\* three iterations of the counter step leave the counter updated three times.
C7_LoopCount ==
  /\ \A j \in Idx :
       trace[j].e = "end" /\ WellFormedLoop(StepOf(j))
         => LET pos == trace[j].pos
                its == trace[j].its
                n == Times(StepOf(j))
                body == Body(StepOf(j))
            IN /\ \A m \in 0..(n - 1) :
                    /\ Cardinality(Iters(pos, its \o <<m>>)) = 1
                    /\ \A q \in 1..Len(body) :
                         /\ Cardinality(Starts(pos \o <<q>>, its \o <<m>>)) = 1
                         /\ Ran(pos \o <<q>>, its \o <<m>>)
                         /\ IterOf(pos, its \o <<m>>) < StartOf(pos \o <<q>>, its \o <<m>>)
                         /\ q > 1 => EndOf(pos \o <<q - 1>>, its \o <<m>>) < StartOf(pos \o <<q>>, its \o <<m>>)
                    /\ m > 0 /\ body # <<>>
                         => EndOf(pos \o <<Len(body)>>, its \o <<m - 1>>)
                              < IterOf(pos, its \o <<m>>)
               /\ \A i \in Idx :
                    trace[i].e = "iter" /\ trace[i].pos = pos /\ Front(trace[i].its) = its
                      => Last(trace[i].its) < n
  /\ \A n \in 0..MaxTimes :
       status = "returned" /\ WorkflowSteps = <<Loop(n, <<S_sc>>), S_p>> => stored_data["c"] = Tally(n)

C7_Witness ==
  /\ status = "returned"
  /\ WorkflowSteps = <<Loop(3, <<S_sc>>), S_p>>
  /\ stored_data["c"] = VStr(<<"I", "I", "I">>)
  /\ Cardinality({i \in Idx : trace[i].e = "iter"}) = 3

\* a step whose handler calls _build_full_context
Resolves(step) ==
  LET config == Get(step, "config", EmptyDict)
  IN \/ step_type(step) = Name("print") /\ IsDict(config)
     \/ step_type(step) = Name("set_variable") /\ IsDict(config) /\ PyTrue(Get(config, "variable", VNone))
     \/ step_type(step) = Name("tool")
          /\ tool_route(step, agents, sm_initialized, tool_mapping) \in {"agent", "call"}
     \/ step_type(step) = Name("agent") /\ agent_found(step, agents)

CounterUpdates == Cardinality({i \in Idx : trace[i].e = "end" /\ trace[i].n = "sc"})

\* C8: the context a step resolves against is built at that step from stored_data
\* and results as they are then: it holds both maps as they stand and an entry for
\* every key written so far, so a step sees the writes of all steps before it, those
\* of earlier iterations of its own loop included (each run of the counter step
\* extends the value its previous run left).
C8_FreshContext ==
  /\ [][(AtStep /\ Resolves(Cur))
          => /\ full_context'["stored_data"] = VDict(stored_data)
             /\ full_context'["results"] = VDict(results)
             /\ DOMAIN stored_data \cup DOMAIN results \subseteq DOMAIN full_context'
             /\ \A k \in DOMAIN stored_data \ (DOMAIN results \cup {"stored_data", "results"}) :
                  full_context'[k] = stored_data[k]]_vars
  /\ [](status \in {"running", "returned", "raised"} /\ "c" \in DOMAIN stored_data
          => stored_data["c"] = Tally(CounterUpdates))

C8_Witness ==
  /\ "c" \in DOMAIN stored_data
  /\ stored_data["c"] = VStr(<<"I", "I">>)
  /\ \E i, j \in Idx : /\ i < j
                       /\ trace[i].e = "end" /\ trace[i].n = "sc"
                       /\ trace[j].e = "end" /\ trace[j].n = "sc"
                       /\ trace[i].pos = trace[j].pos
                       /\ trace[i].its # trace[j].its

\* a set_variable step that writes x
SetsX(step) ==
  /\ step_type(step) = Name("set_variable")
  /\ IsDict(Get(step, "config", EmptyDict))
  /\ Get(step.v["config"], "variable", VNone) = Name("x")

\* a set_variable step has stored x and stored_data still holds the value it stored
XSet ==
  /\ "x" \in DOMAIN stored_data
  /\ \E i \in Idx : /\ trace[i].e = "end" /\ SetsX(StepOf(i))
                    /\ trace[i].n \in DOMAIN results
                    /\ results[trace[i].n] = Success(stored_data["x"])

Precedence(k) ==
  CASE k = "stored_data" -> VDict(stored_data)
    [] k = "results" -> VDict(results)
    [] k \in DOMAIN context -> context[k]
    [] k \in DOMAIN results ->
         IF IsDict(results[k]) /\ "result" \in DOMAIN results[k].v
         THEN results[k].v["result"] ELSE results[k]
    [] OTHER -> stored_data[k]

\* C10: the full context maps every key to the entry of highest priority among
\* stored_data[k], then results[k].result (or results[k]), then the ad hoc context,
\* and maps stored_data and results to the raw maps whatever else bears those names.
C10_Precedence ==
  status = "built"
    => /\ DOMAIN full_context
            = DOMAIN stored_data \cup DOMAIN results \cup DOMAIN context \cup {"stored_data", "results"}
       /\ \A k \in DOMAIN full_context : full_context[k] = Precedence(k)

C10_Witness ==
  /\ status = "built"
  /\ "k" \in DOMAIN stored_data /\ "k" \in DOMAIN results
  /\ "stored_data" \in DOMAIN stored_data /\ "stored_data" \notin DOMAIN context
  /\ full_context["k"] = Raw("r")
  /\ full_context["stored_data"] = VDict(stored_data)

(***************************************************************************)
(* Claims C11..C20                                                         *)
(***************************************************************************)
\* the names of the steps that ended since execute_workflow was last called
LastRun == CHOOSE i \in Idx : trace[i].e = "run" /\ \A j \in Idx : trace[j].e = "run" => j <= i
EndedThisCall == {trace[i].n : i \in {j \in Idx : j > LastRun /\ trace[j].e = "end"}}

\* C11: every call of execute_workflow, the second and later ones on the same
\* executor included, starts with stored_data equal to the definition's variables and
\* with an empty results map, and the results map a call returns holds entries only
\* for the steps executed during that call.
C11_FreshResultsPerCall ==
  /\ [][status = "idle" /\ status' = "running"
          => /\ stored_data' = Get(workflow_config, "variables", EmptyDict).v
             /\ results' = EmptyMap]_vars
  /\ [](status = "returned" => DOMAIN results \subseteq EndedThisCall)


\* C12: stored_data is a copy of the definition's variables map: no step of a run, a
\* store by an input, tool, agent or set_variable step included, adds, removes or
\* rebinds an entry of the definition's variables, which is after the run what it was
\* when execute_workflow was called.
C12_DefinitionUntouched ==
  [][status = "running" => Get(workflow_config', "variables", EmptyDict)
                             = Get(workflow_config, "variables", EmptyDict)]_vars

\* a run has returned in which a set_variable or input step stored x and a tool step
\* stored its payload, none of which the definition's variables hold
C12_Witness ==
  /\ status = "returned"
  /\ {"x", "out", "t1"} \subseteq DOMAIN stored_data
  /\ DOMAIN Get(workflow_config, "variables", EmptyDict).v = {"c", "a"}


\* the tools of the definition that are bound to a server type without a definition
\* in the registry (the bindings of names that are agents are never started)
Unregistered ==
  LET tools == Get(workflow_config, "tools", VList(<<>>)).v
  IN {KeyOf(tools[i].v["name"]) : i \in {j \in DOMAIN tools :
        /\ KeyOf(tools[j].v["name"]) \notin agents
        /\ KeyOf(tools[j].v["server_type"]) \notin tool_definitions}}

\* C13: a definition that binds a tool to an unregistered server type does not make
\* execute_workflow raise: the run goes through its steps, and every tool step that
\* uses such a tool ends with a failure record.
C13_UnregisteredIsAFailureRecord ==
  Unregistered # {} =>
    /\ status = "raised" => Cancelled
    /\ \A i \in Idx :
         (/\ trace[i].e = "end"
          /\ step_type(StepOf(i)) = Name("tool")
          /\ PyStr(Get(StepOf(i), "tool", VNone)) \in {<<n>> : n \in Unregistered})
           => trace[i].n \in DOMAIN results /\ IsFailure(results[trace[i].n])


\* the value an input step checks: the line, or the default when the line is empty
Entered(line, config) ==
  LET default_value == Get(config, "default", VStr(<<>>))
  IN IF line = <<>> /\ PyTrue(default_value) THEN default_value.v ELSE line

OutOfRange(text, config) ==
  \/ ~IsIntText(text)
  \/ Get(config, "min", VNone).t # "none" /\ ParseInt(text) < Get(config, "min", VNone).v
  \/ Get(config, "max", VNone).t # "none" /\ ParseInt(text) > Get(config, "max", VNone).v

\* the value is not what the step's type asks for
BadForType(text, config) ==
  LET input_type == Get(config, "type", Name("string"))
  IN CASE input_type \in {Name("integer"), Name("float")} -> OutOfRange(text, config)
       [] input_type = Name("string") ->
            \/ Get(config, "min_length", VNone).t # "none"
                 /\ Len(text) < Get(config, "min_length", VNone).v
            \/ Get(config, "max_length", VNone).t # "none"
                 /\ Len(text) > Get(config, "max_length", VNone).v
       [] input_type = Name("choice") ->
            \A i \in DOMAIN Get(config, "choices", VList(<<>>)).v :
               Get(config, "choices", VList(<<>>)).v[i] # VStr(text)
       [] OTHER -> FALSE

\* failing validation as the claim lists it: a value that is not what the type asks
\* for, the empty value included, or an empty value when one is required
FailsAsListed(line, config) ==
  \/ BadForType(Entered(line, config), config)
  \/ Entered(line, config) = <<>> /\ PyTrue(Get(config, "required", VBool(FALSE)))

\* failing validation with the empty value set apart: it fails when one is required
\* and passes otherwise, whatever the type
FailsNonEmpty(line, config) ==
  IF Entered(line, config) = <<>> THEN PyTrue(Get(config, "required", VBool(FALSE)))
  ELSE BadForType(Entered(line, config), config)

AskName == KeyOf(Get(Top.step, "step", Name("input_step")))
AskConfig == Get(Top.step, "config", EmptyDict)

\* a failed input step that was not cancelled leaves stored_data as it was and hands
\* over to the next step; a run that returns has run every top-level step
InputFailureGoesOn ==
  /\ [][(/\ InCall("input")
         /\ Last(trace').e = "end"
         /\ IsFailure(results'[AskName]))
          => stored_data' = stored_data /\ status' = "running" /\ stack' = Resume]_vars
  /\ [](status = "returned" => EveryTopLevelStepRan)

OneToken(t) ==
  /\ Len(t) >= 4 /\ StartsAt(t, 1, <<"{", "{">>) /\ StartsAt(t, Len(t) - 1, <<"}", "}">>)
  /\ ~HasBraces(SubSeq(t, 3, Len(t) - 2))

\* what the claim has an entry resolve to
Resolved(value, ctx) ==
  IF IsStr(value) /\ HasBraces(value.v)
  THEN IF OneToken(Strip(value.v))
       THEN LET found == get_value(Strip(SubSeq(Strip(value.v), 3, Len(Strip(value.v)) - 2)), ctx)
            IN IF found.t # "none" THEN found ELSE value
       ELSE VStr(render(value.v, ctx))
  ELSE value

\* C15: the inputs handed to a tool are the step's inputs resolved entry by entry: a
\* string that is one {{expr}} token gives the typed value found (the string itself
\* when the path is not found), any other string with {{ or }}, one made of several
\* tokens included, gives the rendered string, and every other value is passed as is.
C15_ResolveInputs ==
  InCall("tool") =>
    LET inputs == Get(Top.step, "inputs", EmptyDict).v
    IN /\ DOMAIN Top.arg.v["inputs"].v = DOMAIN inputs
       /\ \A k \in DOMAIN inputs : Top.arg.v["inputs"].v[k] = Resolved(inputs[k], full_context)


\* the two passes in the order the claim gives them: condition blocks, then variables
ConditionsFirst(template, ctx) ==
  IF template = <<>> THEN template
  ELSE render_variables(render_condition_blocks(template, ctx), ctx)

\* C16: render applies the condition blocks first and the variables second: what a
\* set_variable step stores for a string value is the variable pass applied to the
\* output of the condition pass, so text that a variable's value brings in is not
\* read as a condition block.
C16_ConditionsBeforeVariables ==
  [][(/\ IsType("set_variable")
      /\ IsDict(Get(Cur, "config", EmptyDict))
      /\ PyTrue(Get(Get(Cur, "config", EmptyDict), "variable", VNone))
      /\ IsStr(Get(Get(Cur, "config", EmptyDict), "value", VNone)))
       => stored_data'[KeyOf(Cur.v["config"].v["variable"])]
            = VStr(ConditionsFirst(Cur.v["config"].v["value"].v, Built))]_vars


\* the path a token names: trimmed, a leading $ dropped, split at the dots
PathOf(q) ==
  LET key == Strip(q)
  IN IF key = <<>> THEN <<>> ELSE Split(IF Head(key) = "$" THEN Tail(key) ELSE key)

\* every segment is present and every node on the way is a map
RECURSIVE PathFound(_, _)
PathFound(cur, parts) ==
  \/ parts = <<>>
  \/ /\ IsDict(cur) /\ Len(parts[1]) = 1 /\ parts[1][1] \in DOMAIN cur.v
     /\ PathFound(cur.v[parts[1][1]], Tail(parts))

RECURSIVE ValueAt(_, _)
ValueAt(cur, parts) == IF parts = <<>> THEN cur ELSE ValueAt(cur.v[parts[1][1]], Tail(parts))

\* what the claim has a template that is one token become
Substituted(q, ctx) ==
  IF PathOf(q) # <<>> /\ PathFound(VDict(ctx), PathOf(q))
  THEN PyStr(ValueAt(VDict(ctx), PathOf(q)))
  ELSE Tok(q)

\* C17: a token whose dotted path is found in the context (every segment present,
\* every node on the way a map) is replaced by the display form of the value, and a
\* token whose path is not found is left as written: a set_variable step whose value
\* is the token stores just that, and so does a print step show it unless the value
\* is a non-empty map (which the print step lays out as a block).
C17_DottedPathSubstitution ==
  \A q \in Paths :
    /\ (status = "returned" /\ WorkflowSteps = <<Assign(Tok(q))>>)
         => results["st"] = Success(VStr(Substituted(q, workflow_config.v["variables"].v)))
    /\ (/\ status = "returned" /\ WorkflowSteps = <<Show(Tok(q))>>
        /\ ~(/\ PathFound(workflow_config.v["variables"], PathOf(q))
             /\ IsDict(ValueAt(workflow_config.v["variables"], PathOf(q)))
             /\ ValueAt(workflow_config.v["variables"], PathOf(q)) # EmptyDict))
         => results["pt"] = Success(VStr(Substituted(q, workflow_config.v["variables"].v)))


\* the strings that count as false, in the spellings the model's contexts hold
FalseWords == {<<"false">>, <<"False">>, <<"FALSE">>, <<"no">>, <<"No">>, <<"NO">>, <<"0">>, <<>>}

\* the truthiness table of the claim, for the value looked up under a key (null when
\* the key is missing)
Truthy(key, ctx) ==
  IF ~(PathOf(key) # <<>> /\ PathFound(VDict(ctx), PathOf(key))) THEN FALSE
  ELSE LET value == ValueAt(VDict(ctx), PathOf(key))
       IN CASE value.t = "none" -> FALSE
            [] value.t = "bool" -> value.v
            [] value.t \in {"int", "float"} -> value.v # 0
            [] value.t = "str" -> value.v \notin FalseWords
            [] value.t = "list" -> Len(value.v) > 0
            [] value.t = "dict" -> DOMAIN value.v # {}

\* C18: a condition block that is not nested gives its inner content exactly when the
\* value looked up for its key is truthy (missing or null: false; a boolean: itself; a
\* number: nonzero; a string: not "false", "no", "0" or "", whatever the case; a list
\* or map: not empty) and the empty string otherwise, in a set_variable value and in
\* a print message alike.
C18_BlockTruthiness ==
  \A key \in CondKeys :
    LET kept == VStr(IF Truthy(key, workflow_config.v["variables"].v) THEN <<"Y">> ELSE <<>>)
    IN /\ (status = "returned" /\ WorkflowSteps = <<Assign(Block(key, <<"Y">>))>>)
            => results["st"] = Success(kept) /\ stored_data["y"] = kept
       /\ (status = "returned" /\ WorkflowSteps = <<Show(Block(key, <<"Y">>))>>)
            => results["pt"] = Success(kept)

\* the run over {{#sno}}Y{{/sno}} has returned: sno is "No", and the block is gone
C18_Witness ==
  /\ status = "returned"
  /\ WorkflowSteps = <<Assign(Block(<<"sno">>, <<"Y">>))>>
  /\ "y" \in DOMAIN stored_data /\ stored_data["y"] = VStr(<<>>)
  /\ "sno" \in DOMAIN stored_data /\ stored_data["sno"] = VStr(<<"No">>)


\* C19: an agent step whose agent is registered calls the agent's execute with the
\* resolved inputs and stores what it returns as a tool step stores the same payload:
\* once the step has ended, results and stored_data hold under its name what
\* tool_recorded and tool_stored give for a payload the agent returned (for a payload
\* with success true: results[step] = {success: true, result: payload},
\* stored_data[step] = payload, and the payload under store_result_as/output).
C19_AgentStoresLikeTool ==
  \A i \in Idx :
    (/\ trace[i].e = "end"
     /\ step_type(StepOf(i)) = Name("agent")
     /\ agent_found(StepOf(i), agents)
     /\ IsDict(Get(StepOf(i), "inputs", EmptyDict))
     /\ i = Len(trace))
      => \E payload \in Payloads :
           /\ trace[i].n \in DOMAIN results
           /\ results[trace[i].n] = tool_recorded(StepOf(i), results, payload)[trace[i].n]
           /\ trace[i].n \in DOMAIN stored_data
           /\ stored_data[trace[i].n] = payload


\* C20: when the tool call returns a map whose success is false or absent, the step's
\* record is the failure {success: false, error: the payload's error}; when it returns
\* a map whose success is true, the record is {success: true, result: payload}; either
\* way the run goes on with the next step.
C20_ToolPayloadRecord ==
  /\ [](InCall("tool") =>
          \A payload \in {r \in Payloads : IsDict(r)} :
            tool_recorded(Top.step, results, payload)[step_name(Top.step)]
              = IF PyTrue(Get(payload, "success", VBool(FALSE)))
                THEN Success(payload)
                ELSE FailureV(Get(payload, "error", VStr(<<"unknown error">>))))
  /\ [][InCall("tool") => status' = "running" /\ stack' = Resume]_vars


(***************************************************************************)
(* Claims C21..C30                                                         *)
(***************************************************************************)
\* the step at hand cannot be looked up: a tool step whose tool is no agent and whose
\* server manager is not initialised or whose tool is not bound, or an agent step
\* whose agent is not registered
LookupFails ==
  \/ /\ IsType("tool")
     /\ tool_route(Cur, agents, sm_initialized, tool_mapping) \in {"uninitialized", "unbound"}
  \/ IsType("agent") /\ ~agent_found(Cur, agents)

\* C21: a step whose tool or agent cannot be looked up records a failure with a
\* message under its name, calls no tool method and no agent (the step ends at once:
\* no call is pending and the history gets no call event), leaves stored_data as it
\* was, and hands over to the next step.
C21_LookupFailuresContained ==
  [][LookupFails =>
       /\ step_name(Cur) \in DOMAIN results'
       /\ IsFailure(results'[step_name(Cur)])
       /\ results'[step_name(Cur)].v["error"].v # <<>>
       /\ stored_data' = stored_data
       /\ status' = "running"
       /\ stack' = Advance
       /\ Last(trace').e = "end"
       /\ \A i \in (Len(trace) + 1)..Len(trace') : trace'[i].e # "call"]_vars

\* a run has returned in which a tool step found its tool unbound and the agent step
\* after it, though its agent is registered nowhere, still ran; neither stored a thing
C21_Witness ==
  /\ status = "returned"
  /\ WorkflowSteps = <<S_ta, S_g1>>
  /\ agents = {}
  /\ {"ta", "g1"} \subseteq DOMAIN results
  /\ IsFailure(results["ta"]) /\ IsFailure(results["g1"])
  /\ stored_data = EmptyMap


\* C22: within a run stored_data and results only gain keys or have the value under a
\* key replaced: no step of any type, a failing one included, takes a key away from
\* either map.
C22_KeysNeverLost ==
  [][status = "running" =>
       /\ DOMAIN stored_data \subseteq DOMAIN stored_data'
       /\ DOMAIN results \subseteq DOMAIN results']_vars

\* a run has returned whose tool step failed and whose set_variable step stored x: the
\* variables the run started with, the payload and x are all there
C22_Witness ==
  /\ status = "returned"
  /\ WorkflowSteps = <<S_t1, S_sx>>
  /\ DOMAIN stored_data = {"c", "a", "out", "t1", "x"}
  /\ DOMAIN results = {"t1", "sx"}
  /\ IsFailure(results["t1"])


\* C23: resolving templates changes nothing it reads.  A print step (which builds the
\* full context, lays out maps and renders) and a tool step up to its call (which
\* builds the context and resolves its inputs) leave stored_data and the ad hoc
\* context as they were and change no record of results but the step's own; a
\* set_variable step changes nothing of stored_data but the variable it sets.
C23_ResolutionReadsOnly ==
  [][/\ (IsType("print") \/ IsType("tool"))
          => /\ stored_data' = stored_data
             /\ context' = context
             /\ \A k \in DOMAIN results \ {step_name(Cur)} :
                  k \in DOMAIN results' /\ results'[k] = results[k]
     /\ IsType("set_variable")
          => /\ context' = context
             /\ \A k \in DOMAIN stored_data :
                  \/ k \in DOMAIN stored_data' /\ stored_data'[k] = stored_data[k]
                  \/ Get(Get(Cur, "config", EmptyDict), "variable", VNone) = Name(k)]_vars

\* the print step has rendered {{a.b}} as 5 and stored_data is what the run was seeded
\* with
C23_Witness ==
  /\ status = "returned"
  /\ WorkflowSteps = <<Show(Tok(<<"a", ".", "b">>))>>
  /\ "pt" \in DOMAIN results /\ results["pt"] = Success(VStr(<<"5">>))
  /\ stored_data = VarsT.v


\* the workflows of the termination property: every step type, loops inside loops and
\* loop counts from zero on; the print and set_variable steps among them carry no
\* template, which plays no part in the order of the steps
LiveLeaf == {S_x, S_pn, S_sx, S_sm, S_in, S_im, S_t1, S_ta, S_g1, S_g2, S_u, S_b, S_r, S_lbad}
LiveBodyLeaf == {S_x, S_in, S_u}
LiveBodies ==
  {<<b>> : b \in LiveBodyLeaf}
    \cup {<<Inner(m, <<b[1]>>), b[2]>> : m \in 0..MaxInner, b \in LiveBodyLeaf \X LiveBodyLeaf}
LiveWorkflows ==
  {<<a[1], a[2]>> : a \in LiveLeaf \X {S_x, S_in}}
    \cup {<<Loop(n, body), S_x>> : n \in 0..MaxTimes, body \in LiveBodies}
LiveScenarios ==
  {Env(Config(Vars0, Tools0, w), {"ag"}, TRUE) : w \in LiveWorkflows}
    \cup {Env(Config(Vars0, VList(<<Binding("t1", st)>>), <<S_t1, S_x>>), {"ag"}, TRUE) :
            st \in {"reg", "nope"}}

InitLive ==
  \E sc \in LiveScenarios :
    /\ workflow_config = sc.cfg
    /\ agents = sc.agents
    /\ sm_initialized = sc.init
    /\ tool_definitions = {"srv", "reg"}
    /\ servers = [k \in {"srv"} |-> PortLo]
    /\ port_pool = (PortLo + 1)..(PortHi - 1)
    /\ stored_data = EmptyMap
    /\ results = EmptyMap
    /\ context = EmptyMap
    /\ full_context = EmptyMap
    /\ tool_mapping = [k \in {} |-> ""]
    /\ stack = <<>>
    /\ status = "idle"
    /\ trace = <<>>

\* execute_workflow runs on one thread from its first statement to its return: every
\* pending statement is eventually executed, and a collaborator that was called
\* eventually returns or raises.
SpecLive == InitLive /\ [][Next]_vars /\ WF_vars(Next)

NoStepRevisited ==
  \A i, j \in Idx :
    trace[i].e = "start" /\ trace[j].e = "start"
      /\ trace[i].pos = trace[j].pos /\ trace[i].its = trace[j].its => i = j
EveryTopLevelStepRanOnce ==
  \A k \in 1..Len(WorkflowSteps) : Cardinality(Starts(<<k>>, <<>>)) = 1 /\ Ran(<<k>>, <<>>)
CallOver == status \in {"returned", "raised"}

\* C24: a call of execute_workflow in which no input is cancelled eventually returns
\* the results map, every top-level step having run exactly once and no step having
\* been started twice at one place of one iteration.
C24_Termination ==
  /\ <>(Cancelled \/ status = "returned")
  /\ [](status = "returned" /\ ~Cancelled => EveryTopLevelStepRanOnce /\ NoStepRevisited)

\* the call is over sooner or later, by a return or by an exception leaving it
C24_CallEnds == <>CallOver


\* the set-up loop of execute_workflow raised: the call is over and no step was started
SetUpRaised == status = "raised" /\ \A i \in Idx : trace[i].e # "start"

\* what remains of C24 when the set-up of the tools is left aside: the call returns, is
\* cancelled at an input, or ends in the set-up before its first step
C24_TerminationAfterSetUp ==
  /\ <>(Cancelled \/ SetUpRaised \/ status = "returned")
  /\ [](status = "returned" /\ ~Cancelled => EveryTopLevelStepRanOnce /\ NoStepRevisited)


LacksOutput == IsType("input") /\ ~PyTrue(Get(Cur, "output", VNone))
LacksVariable ==
  /\ IsType("set_variable")
  /\ LET config == Get(Cur, "config", EmptyDict)
     IN ~IsDict(config) \/ ~PyTrue(Get(config, "variable", VNone))
Prompted == \E i \in Idx : trace[i].e = "prompt"

\* C25: an input step without an output and a set_variable step without a
\* config.variable fail at once: the step records success false with a message,
\* stored_data is as before, no prompt is shown and no line is read (the handler ends
\* in the same step), and the step list goes on with the next step.
C25_MissingFieldFails ==
  [][LacksOutput \/ LacksVariable =>
       /\ step_name(Cur) \in DOMAIN results'
       /\ IsFailure(results'[step_name(Cur)])
       /\ results'[step_name(Cur)].v["error"].v # <<>>
       /\ stored_data' = stored_data
       /\ status' = "running"
       /\ stack' = Advance
       /\ trace' = Atomic(step_name(Cur))]_vars

C25_Witness ==
  /\ status = "returned"
  /\ WorkflowSteps = <<S_im, S_sm>>
  /\ {"im", "sm"} \subseteq DOMAIN results
  /\ IsFailure(results["im"]) /\ IsFailure(results["sm"])
  /\ stored_data = Vars0.v
  /\ ~Prompted


TypeTag(config) ==
  LET input_type == Get(config, "type", Name("string"))
  IN IF input_type = Name("integer") THEN "int"
     ELSE IF input_type = Name("float") THEN "float" ELSE "str"
Succeeds(after) == ~IsFailure(after.res[AskName])

\* C26: an input step that succeeds stores one value both under its output in
\* stored_data and as the result of its record, an integer for type integer, a float
\* for type float and the string otherwise; when the line is empty and the step has a
\* default, what is stored is what typing the default would have stored.
C26_TypedValueStored ==
  InCall("input") =>
    \A line \in Lines :
      LET after == input_stored(Top.step, stored_data, results, line)
          output == KeyOf(Top.step.v["output"])
      IN /\ Succeeds(after)
              => /\ after.res[AskName] = Success(after.sd[output])
                 /\ after.sd[output].t = TypeTag(AskConfig)
         /\ line = <<>> /\ "default" \in DOMAIN AskConfig.v
              => after = input_stored(Top.step, stored_data, results,
                                      PyStr(AskConfig.v["default"]))

\* the statement holds for a line that is not empty, and for the empty line when the
\* default is a non-empty string
C26_TypedValueStoredWhenEntered ==
  InCall("input") =>
    \A line \in Lines :
      LET after == input_stored(Top.step, stored_data, results, line)
          output == KeyOf(Top.step.v["output"])
          default_value == Get(AskConfig, "default", VStr(<<>>))
      IN /\ Succeeds(after) /\ Entered(line, AskConfig) # <<>>
              => /\ after.res[AskName] = Success(after.sd[output])
                 /\ after.sd[output].t = TypeTag(AskConfig)
         /\ line = <<>> /\ IsStr(default_value) /\ default_value.v # <<>>
              => after = input_stored(Top.step, stored_data, results, default_value.v)


\* a StepResult: success and result, or success and an error message
WellFormed(r) ==
  /\ IsDict(r)
  /\ "success" \in DOMAIN r.v
  /\ r.v["success"].t = "bool"
  /\ IF r.v["success"].v
     THEN DOMAIN r.v = {"success", "result"}
     ELSE DOMAIN r.v = {"success", "error"} /\ IsStr(r.v["error"]) /\ r.v["error"].v # <<>>

ShownX == get_value(<<"x">>, Built)
ShowsText == ShownX.t # "none" /\ ~(IsDict(ShownX) /\ DOMAIN ShownX.v # {})

\* C28: what a print step puts in place of {{v}} is the value of v as it is, also
\* when the value holds {{...}} itself: the message "x={{x}}" is rendered as "x="
\* followed by the value of x, whatever else the context holds.
C28_PrintedVerbatim ==
  [][IsType("print") /\ Cur = S_p /\ ShowsText
       => results'["p"] = Success(VStr(<<"x=">> \o PyStr(ShownX)))]_vars

\* the statement holds for a value without braces
C28_PrintedVerbatimWhenPlain ==
  [][IsType("print") /\ Cur = S_p /\ ShowsText /\ ~HasBraces(PyStr(ShownX))
       => results'["p"] = Success(VStr(<<"x=">> \o PyStr(ShownX)))]_vars

\* x holds "{{q}}", q holds "5", and the print step showed the value of q
C28_Disclosed ==
  /\ status = "returned"
  /\ WorkflowSteps = <<S_sq, S_q, S_p>>
  /\ "x" \in DOMAIN stored_data /\ stored_data["x"] = VStr(Tok(<<"q">>))
  /\ "p" \in DOMAIN results /\ results["p"] = Success(VStr(<<"x=", "5">>))


\* a handler comes to its end in this step and the record of its step is a failure
EndsInFailure ==
  /\ AtStep \/ InCall("tool") \/ InCall("input")
  /\ Len(trace') > Len(trace)
  /\ Last(trace').e = "end"
  /\ Last(trace').n \in DOMAIN results'
  /\ IsFailure(results'[Last(trace').n])

\* C29: a step that ends with success false leaves stored_data as it was before the
\* step, a tool step whose call returned a payload with success false, or whose
\* handler raised after the call returned, included.
C29_FailureStoresNothing == [][EndsInFailure => stored_data' = stored_data]_vars

\* the statement holds for every handler but the tool handler's
C29_FailureStoresNothingButTools ==
  [][EndsInFailure /\ ~InCall("tool") => stored_data' = stored_data]_vars

\* the tool step t1 failed and its payload is in stored_data under out and under t1
C29_FailedPayloadStored ==
  /\ status = "returned"
  /\ WorkflowSteps = <<S_t1, S_x>>
  /\ "t1" \in DOMAIN results /\ results["t1"] = Failure(<<"boom">>)
  /\ {"out", "t1"} \subseteq DOMAIN stored_data
  /\ stored_data["out"] = VDict([success |-> VBool(FALSE), error |-> VStr(<<"boom">>)])


(***************************************************************************)
(* ServerManager on its own: start_server and stop_server called in any    *)
(* order on a manager built over a registry that knows the type "reg" and  *)
(* not the type "nope"                                                     *)
(***************************************************************************)
MaxCalls == 2
ServerTypes == {"reg", "nope"}

InitPorts ==
  /\ workflow_config = Config(EmptyDict, VList(<<>>), <<>>)
  /\ agents = {}
  /\ sm_initialized = TRUE
  /\ tool_definitions = {"reg"}
  /\ servers = [k \in {} |-> PortLo]
  /\ port_pool = PortLo..(PortHi - 1)
  /\ stored_data = EmptyMap
  /\ results = EmptyMap
  /\ context = EmptyMap
  /\ full_context = EmptyMap
  /\ tool_mapping = [k \in {} |-> ""]
  /\ stack = <<>>
  /\ status = "ports"
  /\ trace = <<>>

PortsEnv == <<workflow_config, agents, stored_data, results, tool_mapping, sm_initialized,
              tool_definitions, context, full_context, stack, status>>

\* ServerManager.start_server: a running server's port is returned; otherwise a port
\* is popped from the pool, ToolRegistry.create_tool_instance builds the tool (it
\* raises for a type that is not registered) and the server is entered in servers
start_server ==
  /\ status = "ports" /\ Len(trace) < MaxCalls
  /\ \E tool_name \in ServerTypes :
       /\ trace' = trace \o <<Event("start_server", <<>>, <<>>, tool_name)>>
       /\ IF tool_name \in DOMAIN servers \/ port_pool = {}
          THEN UNCHANGED <<servers, port_pool>>
          ELSE \E port \in port_pool :
                 /\ port_pool' = port_pool \ {port}
                 /\ IF tool_name \notin tool_definitions
                    THEN UNCHANGED servers
                    ELSE servers' = Put(servers, tool_name, port)
  /\ UNCHANGED PortsEnv

\* ServerManager.stop_server
stop_server ==
  /\ status = "ports" /\ Len(trace) < MaxCalls
  /\ \E tool_name \in ServerTypes :
       /\ trace' = trace \o <<Event("stop_server", <<>>, <<>>, tool_name)>>
       /\ IF tool_name \in DOMAIN servers
          THEN /\ servers' = [k \in DOMAIN servers \ {tool_name} |-> servers[k]]
               /\ port_pool' = port_pool \cup {servers[tool_name]}
          ELSE UNCHANGED <<servers, port_pool>>
  /\ UNCHANGED PortsEnv

NextPorts ==
  \/ start_server
  \/ stop_server
SpecPorts == InitPorts /\ [][NextPorts]_vars

Held == {servers[k] : k \in DOMAIN servers}
FailedStart(i) ==
  /\ trace[i].e = "start_server"
  /\ trace[i].n \notin tool_definitions

\* C30: after any sequence of start_server and stop_server calls, a start that fails
\* while the tool is built and a start of a running server among them, no port is
\* both free and held by a running server, and the free ports together with the
\* held ones are the ports 8000..8099.
C30_PortAccounting ==
  /\ port_pool \cap Held = {}
  /\ port_pool \cup Held = PortLo..(PortHi - 1)

\* what holds: no port is free and held at once, none comes from outside the range,
\* and the ports that are neither free nor held are as many as the starts that failed
C30_PortsLostByFailedStarts ==
  /\ port_pool \cap Held = {}
  /\ port_pool \cup Held \subseteq PortLo..(PortHi - 1)
  /\ Cardinality((PortLo..(PortHi - 1)) \ (port_pool \cup Held))
       = Cardinality({i \in Idx : FailedStart(i)})

\* a start of the unregistered type has raised: one port is neither free nor held
C30_PortLost ==
  /\ status = "ports"
  /\ Len(trace) = 1 /\ trace[1].e = "start_server" /\ trace[1].n = "nope"
  /\ servers = [k \in {} |-> PortLo]
  /\ Cardinality(port_pool) = PortHi - PortLo - 1

============================================================================
